---- MODULE Spec2Model ----
(***************************************************************************)
(* A model of the NCAA coaching-staff scraper (src/web_scraper.py) and of  *)
(* the task that drives it (src/child_scraping_dag_v2.py).                 *)
(*                                                                         *)
(* Strings of the program are TLA+ strings; substring search, lower(),     *)
(* strip(), split('?')[0], replace() and urljoin() are computed on them.   *)
(* A web page is the parsed document the code walks: its anchors, its      *)
(* table rows and its container elements, in document order.               *)
(***************************************************************************)
EXTENDS Naturals, Sequences, FiniteSets, TLC

VARIABLES
    gp,     \* the running call of get_page
    pr,     \* the running pattern probe (get_simulate_*_link)
    cl,     \* the running link classifier (find_football_link, find_coaches_or_roster_link)
    ex,     \* the running call of extract_coach_listings_bs4
    pl,     \* the running school pipeline
    dag     \* a run of the DAG: its process_school tasks and the files they use

vars == <<gp, pr, cl, ex, pl, dag>>

exceptGp == <<pr, cl, ex, pl, dag>>

exceptPr == <<gp, cl, ex, pl, dag>>

exceptEx == <<gp, pr, cl, pl, dag>>

exceptCl == <<gp, pr, ex, pl, dag>>

exceptPl == <<gp, pr, cl, ex, dag>>

exceptDag == <<gp, pr, cl, ex, pl>>

(***************************************************************************)
(* Bounds of the model.                                                    *)
(***************************************************************************)
MaxRetries == 4

MaxItems == 2

MaxAnchors == 2

RecursionLimit == 2

MaxTasks == 2

(***************************************************************************)
(* Python string operations.                                               *)
(***************************************************************************)
Char(s, i) == SubSeq(s, i, i)

Contains(s, kw) ==
    \E i \in 1..(Len(s) + 1 - Len(kw)) : SubSeq(s, i, i + Len(kw) - 1) = kw

StartsWith(s, p) == Len(p) <= Len(s) /\ SubSeq(s, 1, Len(p)) = p

UpperChars == "ABCDEFGHIJKLMNOPQRSTUVWXYZ"

LowerChars == "abcdefghijklmnopqrstuvwxyz"

LowerChar(c) ==
    IF \E i \in 1..Len(UpperChars) : Char(UpperChars, i) = c
    THEN Char(LowerChars, CHOOSE i \in 1..Len(UpperChars) : Char(UpperChars, i) = c)
    ELSE c

RECURSIVE Lower(_)
Lower(s) == IF s = "" THEN "" ELSE LowerChar(Char(s, 1)) \o Lower(Tail(s))

Pow2(k) == 2 ^ k

UpperChar(c) ==
    IF \E i \in 1..Len(LowerChars) : Char(LowerChars, i) = c
    THEN Char(UpperChars, CHOOSE i \in 1..Len(LowerChars) : Char(LowerChars, i) = c)
    ELSE c

\* str.title() of a single lower-case word
Title(s) == IF s = "" THEN "" ELSE UpperChar(Char(s, 1)) \o Tail(s)

Whitespace == {" ", "\t", "\n", "\r"}

RECURSIVE LStrip(_)
LStrip(s) == IF s # "" /\ Char(s, 1) \in Whitespace THEN LStrip(Tail(s)) ELSE s

RECURSIVE RStrip(_)
RStrip(s) ==
    IF s # "" /\ Char(s, Len(s)) \in Whitespace THEN RStrip(SubSeq(s, 1, Len(s) - 1)) ELSE s

\* str.strip()
Strip(s) == RStrip(LStrip(s))

\* str.replace(old, "") for a non-empty old
RECURSIVE Remove(_, _)
Remove(s, old) ==
    IF s = "" THEN ""
    ELSE IF StartsWith(s, old) THEN Remove(SubSeq(s, Len(old) + 1, Len(s)), old)
    ELSE Char(s, 1) \o Remove(Tail(s), old)

\* the least index >= from at which sub occurs in s, 0 when there is none
IndexOf(s, sub, from) ==
    LET hits == {i \in from..(Len(s) + 1 - Len(sub)) : SubSeq(s, i, i + Len(sub) - 1) = sub}
    IN  IF hits = {} THEN 0 ELSE CHOOSE i \in hits : \A j \in hits : i <= j

\* the greatest index at which sub occurs in s, 0 when there is none
LastIndexOf(s, sub) ==
    LET hits == {i \in 1..(Len(s) + 1 - Len(sub)) : SubSeq(s, i, i + Len(sub) - 1) = sub}
    IN  IF hits = {} THEN 0 ELSE CHOOSE i \in hits : \A j \in hits : j <= i

\* s.split(sep)[0]
SplitFirst(s, sep) ==
    LET i == IndexOf(s, sep, 1) IN IF i = 0 THEN s ELSE SubSeq(s, 1, i - 1)

(***************************************************************************)
(* urllib.parse.urljoin for http(s) bases and references that are          *)
(* absolute, scheme-relative, root-relative, query-only, or relative       *)
(* without dot segments.                                                   *)
(***************************************************************************)
UrlScheme(u) == SubSeq(u, 1, IndexOf(u, "://", 1) - 1)

UrlNoQuery(u) == SplitFirst(SplitFirst(u, "#"), "?")

\* scheme://host of an absolute URL
UrlOrigin(u) ==
    LET b == UrlNoQuery(u)
        p == IndexOf(b, "://", 1)
        q == IndexOf(b, "/", p + 3)
    IN  IF q = 0 THEN b ELSE SubSeq(b, 1, q - 1)

\* urlparse(u).netloc of an absolute URL
UrlNetloc(u) == SubSeq(UrlOrigin(u), Len(UrlScheme(u)) + 4, Len(UrlOrigin(u)))

\* the base up to and with the last "/" of its path
UrlDir(u) ==
    LET b == UrlNoQuery(u)
        o == UrlOrigin(u)
    IN  IF Len(b) = Len(o) THEN o \o "/" ELSE SubSeq(b, 1, LastIndexOf(b, "/"))

UrlJoin(base, ref) ==
    IF ref = "" THEN base
    ELSE IF StartsWith(ref, "http://") \/ StartsWith(ref, "https://") THEN ref
    ELSE IF StartsWith(ref, "//") THEN UrlScheme(base) \o ":" \o ref
    ELSE IF StartsWith(ref, "/") THEN UrlOrigin(base) \o ref
    ELSE IF StartsWith(ref, "?") THEN
        (IF Len(UrlNoQuery(base)) = Len(UrlOrigin(base))
         THEN UrlOrigin(base) \o ref ELSE UrlNoQuery(base) \o ref)
    ELSE UrlDir(base) \o ref

(***************************************************************************)
(* The values the code passes around.                                      *)
(***************************************************************************)
\* Python's None where a URL string is expected: no URL is this string
None == "None"

\* Python's None where the text of a page is expected
NoPage == [kind |-> "None", anchors |-> <<>>, tables |-> <<>>, elems |-> <<>>]

FetchUrls == {"https://a.edu", "https://a.edu/sports/football", "https://b.edu/staff"}

\* response.text of a fetch that succeeded, as the parsed page
SamplePages ==
    {[kind |-> "page", anchors |-> <<>>, tables |-> <<>>, elems |-> <<>>],
     [kind |-> "page",
      anchors |-> <<[href |-> "/sports/football", text |-> "Football", region |-> "main-nav"]>>,
      tables |-> <<>>, elems |-> <<>>]}

(***************************************************************************)
(* NCAAScraper.get_page: one HTTP attempt per step.                        *)
(***************************************************************************)
GpIdle ==
    [pc |-> "idle", url |-> "", max_retries |-> 0, attempt |-> 0,
     result |-> NoPage, slept |-> <<>>, log |-> <<>>]

\* for attempt in range(max_retries): the loop body runs only when an
\* attempt is left; otherwise the function falls to its final return None.
GpStart(url, n) ==
    [pc |-> IF n > 0 THEN "attempt" ELSE "done", url |-> url, max_retries |-> n,
     attempt |-> 0, result |-> NoPage, slept |-> <<>>, log |-> <<>>]

\* the attempt that ends the retries: attempt == max_retries - 1
LastAttempt(attempt, n) == attempt = n - 1

BackoffSeconds_Linear(attempt) == 2 * attempt

\* time.sleep(2 ** attempt)
BackoffSeconds(attempt) == Pow2(attempt)

GpSucceed_NoReturn(g, body) ==
    [g EXCEPT !.pc = "backoff", !.result = body, !.log = Append(@, "ok")]

\* session.get + raise_for_status succeeded: return response.text
GpSucceed(g, body) ==
    [g EXCEPT !.pc = "done", !.result = body, !.log = Append(@, "ok")]

\* except RequestException: return None on the last attempt, else back off
GpFail(g) ==
    IF LastAttempt(g.attempt, g.max_retries)
    THEN [g EXCEPT !.pc = "done", !.result = NoPage, !.log = Append(@, "fail")]
    ELSE [g EXCEPT !.pc = "backoff", !.log = Append(@, "fail")]

\* the sleep before the next turn of the loop; a loop that has run out of
\* attempts falls to the final return None
GpBackoff(g) ==
    [g EXCEPT !.pc = IF g.attempt + 1 < g.max_retries THEN "attempt" ELSE "done",
              !.slept = Append(@, BackoffSeconds(g.attempt)),
              !.attempt = @ + 1]

GetPageCall ==
    /\ gp.pc = "idle"
    /\ \E url \in FetchUrls, n \in 0..MaxRetries : gp' = GpStart(url, n)
    /\ UNCHANGED exceptGp

GetPageAttemptOk ==
    /\ gp.pc = "attempt"
    /\ \E body \in SamplePages : gp' = GpSucceed(gp, body)
    /\ UNCHANGED exceptGp

GetPageAttemptFail ==
    /\ gp.pc = "attempt"
    /\ gp' = GpFail(gp)
    /\ UNCHANGED exceptGp

GetPageBackoff ==
    /\ gp.pc = "backoff"
    /\ gp' = GpBackoff(gp)
    /\ UNCHANGED exceptGp

GetPageReturn ==
    /\ gp.pc = "done"
    /\ gp' = GpIdle
    /\ UNCHANGED exceptGp

(***************************************************************************)
(* The pattern probes: get_simulate_coaches_link, get_simulate_roster_link *)
(* and get_simulate_football_link, one HTTP request per step.              *)
(***************************************************************************)
CoachesPatterns ==
    << "/coaches", "/coaching-staff", "/football/coaches", "/football/staff",
       "/football/coaching-staff", "/football/coaches", "/sports/football/coaches",
       "/staff-directory" >>

RosterPatterns ==
    << "/roster", "/team-roster", "/football/roster", "/football/team-roster",
       "/sports/football/roster", "/football/roster.html", "/football/team-roster.html" >>

FootballPatterns ==
    << "/team/football", "/sports/football", "/football-team", "/football-program",
       "/football/schedule", "/football/roster", "/football/coaches", "/football/home",
       "/football/index", "/football/team", "/football/overview" >>

ProbePatterns(cat) ==
    CASE cat = "coaches" -> CoachesPatterns
      [] cat = "roster" -> RosterPatterns
      [] cat = "football" -> FootballPatterns

ProbeKeywords(cat) ==
    CASE cat = "coaches" -> {"coach", "staff", "coaching staff"}
      [] cat = "roster" -> {"roster", "players", "team roster"}
      [] cat = "football" -> {"football", "fball", "football team", "football program"}

ProbeCategories == {"coaches", "roster", "football"}

\* what one requests.get of a probe can produce
ProbeBodies == {"<h1>Coaching Staff</h1>", "2024 ROSTER", "Football", "Page not found"}

ProbeStatuses == {200, 404}

ProbeResponses ==
    {[kind |-> "error", status |-> 0, text |-> ""]}
        \cup {[kind |-> "http", status |-> st, text |-> t] : st \in ProbeStatuses, t \in ProbeBodies}

NoResponse == [kind |-> "none", status |-> 0, text |-> ""]

ProbeAccepts_StatusOnly(resp, cat) == resp.status = 200

\* response.status_code == 200 and any(keyword in response.text.lower() ...)
ProbeAccepts(resp, cat) ==
    /\ resp.status = 200
    /\ \E kw \in ProbeKeywords(cat) : Contains(Lower(resp.text), kw)

\* test_url = urljoin(url, pattern)
ProbeUrl(base, cat, i) == UrlJoin(base, ProbePatterns(cat)[i])

PrIdle ==
    [pc |-> "idle", cat |-> "coaches", base |-> "", i |-> 1, result |-> None,
     resp |-> NoResponse, asked |-> 0, firstQ |-> 0, lastError |-> 0]

PrStart(cat, base) ==
    [pc |-> "request", cat |-> cat, base |-> base, i |-> 1, result |-> None,
     resp |-> NoResponse, asked |-> 0, firstQ |-> 0, lastError |-> 0]

\* the rest of the for loop after a candidate that was not accepted; the
\* function returns None when the patterns are used up
PrAdvance(p) ==
    IF p.i < Len(ProbePatterns(p.cat))
    THEN [p EXCEPT !.i = @ + 1]
    ELSE [p EXCEPT !.pc = "done", !.result = None]

PrOnError_Abort(p) == [p EXCEPT !.pc = "done", !.result = None]

\* except requests.exceptions.RequestException: continue
PrOnError(p) == PrAdvance(p)

\* the body of the try for a response that arrived
PrOnResponse(p, resp) ==
    IF ProbeAccepts(resp, p.cat)
    THEN [p EXCEPT !.pc = "done", !.result = ProbeUrl(p.base, p.cat, p.i)]
    ELSE PrAdvance(p)

\* The observer of the probe's traffic: the number of requests sent, the
\* last response, the index of the first candidate that answered 200
\* with a corroborating keyword in its body, and the index of the last
\* candidate whose request raised.
Corroborated(resp, cat) ==
    /\ resp.kind = "http"
    /\ resp.status = 200
    /\ \E kw \in ProbeKeywords(cat) : Contains(Lower(resp.text), kw)

PrObserve(p, q, resp) ==
    [q EXCEPT !.resp = resp, !.asked = p.asked + 1,
              !.firstQ = IF p.firstQ = 0 /\ Corroborated(resp, p.cat) THEN p.i ELSE p.firstQ,
              !.lastError = IF resp.kind = "error" THEN p.i ELSE p.lastError]

ProbeRequestError ==
    /\ pr.pc = "request"
    /\ \E resp \in {r \in ProbeResponses : r.kind = "error"} :
         pr' = PrObserve(pr, PrOnError(pr), resp)
    /\ UNCHANGED exceptPr

ProbeRequestAnswered ==
    /\ pr.pc = "request"
    /\ \E resp \in {r \in ProbeResponses : r.kind = "http"} :
         pr' = PrObserve(pr, PrOnResponse(pr, resp), resp)
    /\ UNCHANGED exceptPr

ProbeBases == {"https://a.edu/sports/football", "https://b.edu"}

ProbeCall ==
    /\ pr.pc = "idle"
    /\ \E cat \in ProbeCategories, base \in ProbeBases : pr' = PrStart(cat, base)
    /\ UNCHANGED exceptPr

ProbeReturn ==
    /\ pr.pc = "done"
    /\ pr' = PrIdle
    /\ UNCHANGED exceptPr

(***************************************************************************)
(* Parsed markup.  A node is a tag with its own text and its href and src  *)
(* attributes (None when absent); a table cell and a container element     *)
(* hold their descendant nodes in document order.                          *)
(***************************************************************************)
Node(tag, s, href, src) == [tag |-> tag, s |-> s, href |-> href, src |-> src]

Txt(s) == Node("text", s, None, None)

Tag(tag, s) == Node(tag, s, None, None)

Anchor(href, s) == Node("a", s, href, None)

Img(src) == Node("img", "", None, src)

NoNode == Node("none", "", None, None)

\* Python truthiness of an Optional[str]
Truthy(v) == v # None /\ v # ""

\* Tag.find(...): the first of the nodes that pass the test, in document order
Find(hits) == IF hits = <<>> THEN NoNode ELSE Head(hits)

Found(node) == node.tag # "none"

\* Tag.get_text(): the texts of the nodes joined
RECURSIVE GetText(_)
GetText(nodes) == IF nodes = <<>> THEN "" ELSE Head(nodes).s \o GetText(Tail(nodes))

\* Tag.stripped_strings: every text stripped, the empty ones dropped
RECURSIVE StrippedStrings(_)
StrippedStrings(nodes) ==
    IF nodes = <<>> THEN <<>>
    ELSE LET t == Strip(Head(nodes).s)
         IN  (IF t = "" THEN <<>> ELSE <<t>>) \o StrippedStrings(Tail(nodes))

RECURSIVE JoinAll(_)
JoinAll(strs) == IF strs = <<>> THEN "" ELSE Head(strs) \o JoinAll(Tail(strs))

\* Tag.get_text(strip=True)
GetTextStrip(nodes) == JoinAll(StrippedStrings(nodes))

\* find('a', href=lambda x: x and marker in x)
FindHref(nodes, marker) ==
    Find(SelectSeq(nodes, LAMBDA n :
             n.tag = "a" /\ Truthy(n.href) /\ Contains(n.href, marker)))

(***************************************************************************)
(* NCAAScraper.extract_coach_listings_bs4.                                 *)
(***************************************************************************)
HasName_Always(name) == TRUE

\* if name: (only add a record that has a name)
HasName(name) == Truthy(name)

\* One tr.sidearm-coaches-coach row: the record it adds to coaches, or
\* nothing when it has no name or when the row raises (name_link['href'] of
\* an anchor without href) and the except clause skips it.
TableRowRecords(row, base_url) ==
    LET cells == row.cells
        img_tag == IF Len(cells) > 0 THEN Find(SelectSeq(cells[1], LAMBDA n : n.tag = "img")) ELSE NoNode
        image_url == IF Found(img_tag) /\ img_tag.src # None THEN img_tag.src ELSE None
        name_link == IF Len(cells) > 1 THEN Find(SelectSeq(cells[2], LAMBDA n : n.tag = "a")) ELSE NoNode
        raises == Found(name_link) /\ name_link.href = None
        name == IF Len(cells) > 1
                THEN (IF Found(name_link) THEN GetTextStrip(<<name_link>>)
                                          ELSE GetTextStrip(cells[2]))
                ELSE None
        profile_url == IF Found(name_link) /\ ~raises
                       THEN UrlJoin(base_url, name_link.href) ELSE None
        position == IF Len(cells) > 2 THEN GetTextStrip(cells[3]) ELSE None
        email_link == IF Len(cells) > 3 THEN FindHref(cells[4], "mailto:") ELSE NoNode
        email == IF Found(email_link) THEN Remove(email_link.href, "mailto:") ELSE None
        phone_link == IF Len(cells) > 4 THEN FindHref(cells[5], "tel:") ELSE NoNode
        phone == IF Len(cells) > 4
                 THEN (IF Found(phone_link) THEN GetTextStrip(<<phone_link>>)
                                            ELSE GetTextStrip(cells[5]))
                 ELSE None
        coach == [name |-> name, position |-> position, sport |-> "Football",
                  profile_url |-> profile_url, email |-> email, phone |-> phone,
                  image_url |-> image_url]
    IN  IF raises THEN <<>>
        ELSE IF HasName(name) THEN <<coach>> ELSE <<>>

RECURSIVE RowsRecords(_, _)
RowsRecords(rows, base_url) ==
    IF rows = <<>> THEN <<>>
    ELSE TableRowRecords(Head(rows), base_url) \o RowsRecords(Tail(rows), base_url)

\* for table in soup.find_all('table', class_='sidearm-table'):
\*     for row in table.find_all('tr', class_='sidearm-coaches-coach'):
RECURSIVE TableRecords(_, _)
TableRecords(tables, base_url) ==
    IF tables = <<>> THEN <<>>
    ELSE (IF "sidearm-table" \in Head(tables).classes
          THEN RowsRecords(SelectSeq(Head(tables).rows,
                                     LAMBDA r : "sidearm-coaches-coach" \in r.classes),
                           base_url)
          ELSE <<>>)
         \o TableRecords(Tail(tables), base_url)

ReturnAfterTable_Never(coaches) == FALSE

\* if coaches: return coaches
ReturnAfterTable(coaches) == coaches # <<>>

container_selectors ==
    << ".coach-card", ".staff-card", ".directory-item", ".staff-member",
       ".coach-profile", ".staff-profile", ".bio-card", ".personnel-card",
       ".coach", ".staff", ".directory-listing", ".staff-listing",
       "div.coach", "div.staff", "div.directory", "div.personnel" >>

\* a selector "tag.class" or ".class"
SelectorTag(sel) == SplitFirst(sel, ".")

SelectorClass(sel) == SubSeq(sel, IndexOf(sel, ".", 1) + 1, Len(sel))

\* soup.select(selector)
Select(elems, sel) ==
    SelectSeq(elems, LAMBDA e : /\ SelectorTag(sel) \in {"", e.tag}
                                /\ SelectorClass(sel) \in e.classes)

\* for selector in container_selectors: ... if elements: ...; break
RECURSIVE FirstSelection(_, _)
FirstSelection(elems, sels) ==
    IF sels = <<>> THEN <<>>
    ELSE IF Select(elems, Head(sels)) # <<>> THEN Select(elems, Head(sels))
    ELSE FirstSelection(elems, Tail(sels))

UseGeneric_Always(coach_elements) == TRUE

\* if not coach_elements: (no selector matched an element)
UseGeneric(coach_elements) == coach_elements = <<>>

\* the generic scan over div, li and article elements
GenericCandidates(elems) ==
    SelectSeq(elems, LAMBDA e :
        LET text == Lower(GetText(e.nodes))
        IN  /\ e.tag \in {"div", "li", "article"}
            /\ (Contains(text, "coach") \/ Contains(text, "staff"))
            /\ (Contains(text, "email") \/ Contains(text, "phone") \/ Contains(text, "@")))

position_keywords == {"head coach", "assistant coach", "coach", "director", "coordinator"}

sport_keywords ==
    << "basketball", "football", "soccer", "baseball", "softball",
       "volleyball", "tennis", "golf", "track", "swimming" >>

Blocks(nodes) == SelectSeq(nodes, LAMBDA n : n.tag \in {"p", "div", "span"})

\* One candidate element: the record it adds to coaches, or nothing.
ElementRecords(element, base_url) ==
    LET nodes == element.nodes
        name_element == Find(SelectSeq(nodes, LAMBDA n :
                            n.tag \in {"h1", "h2", "h3", "h4", "h5", "h6", "strong", "b"}))
        heading == IF Found(name_element) THEN Strip(name_element.s) ELSE None
        text_blocks == StrippedStrings(nodes)
        name == IF ~Truthy(heading) /\ text_blocks # <<>> THEN text_blocks[1] ELSE heading
        pos_node == Find(SelectSeq(Blocks(nodes), LAMBDA n :
                        \E kw \in position_keywords : Contains(Strip(Lower(n.s)), kw)))
        position == IF Found(pos_node) THEN Strip(pos_node.s) ELSE None
        sport_node == Find(SelectSeq(Blocks(nodes), LAMBDA n :
                          \E k \in 1..Len(sport_keywords) :
                              Contains(Strip(Lower(n.s)), sport_keywords[k])))
        sport == IF Found(sport_node)
                 THEN Title(sport_keywords[
                        CHOOSE k \in 1..Len(sport_keywords) :
                            /\ Contains(Strip(Lower(sport_node.s)), sport_keywords[k])
                            /\ \A j \in 1..(k - 1) :
                                 ~Contains(Strip(Lower(sport_node.s)), sport_keywords[j])])
                 ELSE None
        profile_link == Find(SelectSeq(nodes, LAMBDA n : n.tag = "a"))
        profile_url == IF Found(profile_link) /\ profile_link.href # None
                       THEN (IF StartsWith(profile_link.href, "http")
                             THEN profile_link.href
                             ELSE UrlJoin(base_url, profile_link.href))
                       ELSE None
        email_element == FindHref(nodes, "mailto:")
        email == IF Found(email_element) THEN Remove(email_element.href, "mailto:") ELSE None
        phone_element == FindHref(nodes, "tel:")
        phone == IF Found(phone_element) THEN Remove(phone_element.href, "tel:") ELSE None
        coach == [name |-> name, position |-> position, sport |-> sport,
                  profile_url |-> profile_url, email |-> email, phone |-> phone]
    IN  IF HasName(name) THEN <<coach>> ELSE <<>>

RECURSIVE ElementsRecords(_, _)
ElementsRecords(elements, base_url) ==
    IF elements = <<>> THEN <<>>
    ELSE ElementRecords(Head(elements), base_url) \o ElementsRecords(Tail(elements), base_url)

\* The function in steps: the table strategy, the selectors, the generic
\* scan, and the loop over the candidate elements.  started lists the
\* strategies that ran.
ExIdle ==
    [pc |-> "idle", page |-> NoPage, base_url |-> "", coaches |-> <<>>,
     coach_elements |-> <<>>, started |-> <<>>, result |-> <<>>]

ExStart(page, base_url) ==
    [pc |-> "table", page |-> page, base_url |-> base_url, coaches |-> <<>>,
     coach_elements |-> <<>>, started |-> <<>>, result |-> <<>>]

ExTable(x) ==
    LET coaches == TableRecords(x.page.tables, x.base_url)
    IN  IF ReturnAfterTable(coaches)
        THEN [x EXCEPT !.pc = "done", !.coaches = coaches, !.result = coaches,
                       !.started = Append(@, "table")]
        ELSE [x EXCEPT !.pc = "css", !.coaches = coaches, !.started = Append(@, "table")]

ExSelectors(x) ==
    LET coach_elements == FirstSelection(x.page.elems, container_selectors)
    IN  [x EXCEPT !.pc = IF UseGeneric(coach_elements) THEN "generic" ELSE "process",
                  !.coach_elements = coach_elements, !.started = Append(@, "css")]

ExGeneric(x) ==
    [x EXCEPT !.pc = "process", !.coach_elements = GenericCandidates(x.page.elems),
              !.started = Append(@, "generic")]

ExProcess(x) ==
    LET coaches == x.coaches \o ElementsRecords(x.coach_elements, x.base_url)
    IN  [x EXCEPT !.pc = "done", !.coaches = coaches, !.result = coaches]

\* the whole function, for its callers
RECURSIVE ExRun(_)
ExRun(x) ==
    CASE x.pc = "table" -> ExRun(ExTable(x))
      [] x.pc = "css" -> ExRun(ExSelectors(x))
      [] x.pc = "generic" -> ExRun(ExGeneric(x))
      [] x.pc = "process" -> ExRun(ExProcess(x))
      [] OTHER -> x

extract_coach_listings_bs4(page, base_url) == ExRun(ExStart(page, base_url)).result

(***************************************************************************)
(* The coaches pages the extractor is run on.                              *)
(***************************************************************************)
Row(cells) == [classes |-> {"sidearm-coaches-coach"}, cells |-> cells]

RowJane ==
    Row(<< <<Img("/images/jd.jpg")>>, <<Anchor("/staff/jane-doe", "Jane Doe")>>,
           <<Txt("Head Coach")>>, <<Anchor("mailto:jd@x.edu", "Email")>>, <<>> >>)

RowPadded ==
    Row(<< <<>>, <<Txt("\n Bo Ray \n")>>, <<Txt(" Assistant Coach ")>>, <<>>,
           <<Anchor("tel:555-0100", " 555-0100 ")>> >>)

RowBlankName == Row(<< <<>>, <<Txt(" \n ")>>, <<Txt("Director")>> >>)

RowNoHref == Row(<< <<>>, <<Anchor(None, "Sam Lee")>>, <<Txt("Coordinator")>> >>)

RowOneCell == Row(<< <<Txt("Staff")>> >>)

RowUnmarked == [classes |-> {"header"}, cells |-> << <<>>, <<Txt("Name")>> >>]

RowCatalog == {RowJane, RowPadded, RowBlankName, RowNoHref, RowOneCell, RowUnmarked}

Elem(tag, classes, nodes) == [tag |-> tag, classes |-> classes, nodes |-> nodes]

ElemCard ==
    Elem("div", {"coach-card"},
         << Tag("h3", " John Smith "), Tag("p", "Head Coach, Football"),
            Anchor("/coaches/john-smith", "Bio"), Anchor("mailto:js@x.edu", "js@x.edu") >>)

ElemBlankHeading == Elem("div", {"staff-member"}, << Tag("h3", "  "), Txt("\n") >>)

ElemTextOnly ==
    Elem("li", {"staff-member"}, << Tag("h4", ""), Tag("span", " Pat Kim "), Tag("span", "Coordinator") >>)

ElemGeneric ==
    Elem("li", {}, << Txt("Coach Al Roe "), Tag("span", "email: al@x.edu"),
                      Anchor("tel:555-0101", "Call") >>)

ElemStaffDiv == Elem("div", {"staff"}, << Tag("strong", "Lee Poe"), Tag("div", "Assistant Coach") >>)

ElemOther == Elem("div", {"footer"}, << Txt("Contact us") >>)

ElemCatalog == {ElemCard, ElemBlankHeading, ElemTextOnly, ElemGeneric, ElemStaffDiv, ElemOther}

\* a page holds at most MaxItems table rows and container elements in all
TablesOf(rows) ==
    IF rows = <<>> THEN <<>> ELSE << [classes |-> {"sidearm-table"}, rows |-> rows] >>

PlainTablePage ==
    [kind |-> "page", anchors |-> <<>>,
     tables |-> << [classes |-> {"roster-table"}, rows |-> <<RowJane>>] >>,
     elems |-> <<ElemGeneric>>]

ListingPages ==
    {PlainTablePage} \cup
    UNION {{[kind |-> "page", anchors |-> <<>>, tables |-> TablesOf(rows), elems |-> elems] :
               rows \in [1..k[1] -> RowCatalog], elems \in [1..k[2] -> ElemCatalog]} :
           k \in {c \in (0..MaxItems) \X (0..MaxItems) : c[1] + c[2] <= MaxItems}}

ListingUrls == {"https://a.edu/sports/football/coaches"}

ExtractCall ==
    /\ ex.pc = "idle"
    /\ \E page \in ListingPages, base_url \in ListingUrls : ex' = ExStart(page, base_url)
    /\ UNCHANGED exceptEx

ExtractTable ==
    /\ ex.pc = "table"
    /\ ex' = ExTable(ex)
    /\ UNCHANGED exceptEx

ExtractSelectors ==
    /\ ex.pc = "css"
    /\ ex' = ExSelectors(ex)
    /\ UNCHANGED exceptEx

ExtractGeneric ==
    /\ ex.pc = "generic"
    /\ ex' = ExGeneric(ex)
    /\ UNCHANGED exceptEx

ExtractProcess ==
    /\ ex.pc = "process"
    /\ ex' = ExProcess(ex)
    /\ UNCHANGED exceptEx

ExtractReturn ==
    /\ ex.pc = "done"
    /\ ex' = ExIdle
    /\ UNCHANGED exceptEx

(***************************************************************************)
(* The link classifiers: find_coaches_or_roster_link and                   *)
(* find_football_link.  An anchor is its href (None when the attribute is  *)
(* absent), its visible text, and the class of the nav, div or ul that     *)
(* encloses it ("" when no classed container does).                        *)
(***************************************************************************)
A(href, text, region) == [href |-> href, text |-> text, region |-> region]

coaches_keywords ==
    {"coaches", "coaching staff", "staff directory", "football staff",
     "coaches & staff", "coaches and staff", "staff", "directory"}

roster_keywords == {"roster", "team roster", "football roster", "players"}

\* the sport codes appended to the negative keywords of both classifiers
sport_abbreviations_common ==
    {"bsb", "mbkb", "wbkb", "mxc", "wxc", "mlax", "wlax", "msoc", "wsoc", "sball",
     "mswimdive", "wswimdive", "mten", "wten", "wvball", "w-baskbl", "m-xc", "w-xc",
     "w-softbl", "m-baskbl", "m-basebl", "w-volley", "c-swim", "social"}

\* negative_keywords of find_coaches_or_roster_link after the extend; the
\* adjacent literals 'secure' 'secure' and 'resources' 'login' of the list
\* are one string each
coaches_negative_keywords ==
    {"soccer", "baseball", "basketball", "volleyball", "softball", "lacrosse",
     "tennis", "golf", "swimming", "diving", "track", "field", "cross country",
     "wrestling", "hockey", "rowing", "gymnastics", "rugby", "bowling", "fencing",
     "water polo", "beach volleyball", "field hockey", "skiing", "equestrian", "esports",
     "dance-team", "cheerleading", "spirit", "news", "article", "press", "release",
     "voice", "tv", "clinic", "family", "camp", "youth", "fan", "shop", "store", "tickets",
     "cross-country", "department", "cycling", "wrest", "equest", "fh", "securesecure",
     "administration", "medicine", "pdf", "corner", "resourceslogin",
     "register", "sign-up", "sign in", "sign-in", "log in", "log-in",
     "mvball", "wvball", "m-baskbl", "w-baskbl", "m-soc", "w-soc", "m-lax", "w-lax",
     "wwrest", "m-wrest", "m-gym", "w-gym", "m-swim", "w-swim", "m-ten", "w-ten",
     "roger", "access", "roque", "jc", "sail", "crew", "sailing"}
    \cup sport_abbreviations_common
    \cup {"m-golf", "w-golf", "m-track", "w-track", "m-fieldhockey",
          "w-fieldhockey", "m-wrestling", "w-wrestling", "m-rugby", "w-rugby", "m-rowing",
          "w-rowing", "m-gymnastics", "w-gymnastics", "m-equestrian", "w-equestrian",
          "m-waterpolo", "w-waterpolo", "m-beachvolleyball", "w-beachvolleyball",
          "m-skiing", "w-skiing", "m-fencing", "w-fencing", "m-bowling", "w-bowling",
          "m-dance", "w-dance", "m-cheerleading", "w-cheerleading", "m-esports", "w-esports",
          "m-voice", "w-voice", "m-tv", "w-tv", "m-clinic", "w-clinic", "m-family", "w-family"}

football_keywords == {"football", "football program", "fball", "football team", "football home"}

\* negative_keywords of find_football_link after the extend
football_negative_keywords ==
    {"soccer", "baseball", "basketball", "volleyball", "softball", "lacrosse",
     "tennis", "golf", "swimming", "diving", "track", "field", "cross country",
     "wrestling", "hockey", "rowing", "gymnastics", "rugby", "bowling", "fencing",
     "water polo", "beach volleyball", "field hockey", "skiing", "equestrian",
     "tickets", "season tickets", "ticket office", "box office", "purchase tickets",
     "buy tickets", "ticket sales", "ticket information", "seasontickets",
     "podcast", "Product", "shop", "store", "team store", "merchandise",
     "php", "women", "vice", "hype", "season", "schedule", "news", "article",
     "output", "sb"}
    \cup sport_abbreviations_common

\* negative_keywords of find_football_team_page and of find_coaches_page
sports_negative_keywords ==
    {"soccer", "baseball", "basketball", "volleyball", "softball", "lacrosse",
     "tennis", "golf", "swimming", "diving", "track", "field", "cross country",
     "wrestling", "hockey", "rowing", "gymnastics", "rugby", "bowling", "fencing",
     "water polo", "beach volleyball", "field hockey", "skiing", "equestrian"}

coaches_page_nav_words == {"menu", "nav", "dropdown", "football", "staff", "roster"}

coaches_nav_words ==
    {"menu", "nav", "dropdown", "coach", "coaches", "staff", "football", "roster", "rosters"}

football_nav_words == {"menu", "nav", "dropdown", "sports", "athletics"}

\* the classifiers that fetch with requests.get and fall back to the probes
Classifiers == {"find_football_link", "find_coaches_or_roster_link"}

\* the classifiers of scrape_coach_roster, which fetch with get_page
Finders == {"find_football_team_page", "find_coaches_page"}

NavWords(fn) ==
    CASE fn = "find_football_link" -> football_nav_words
      [] fn = "find_coaches_or_roster_link" -> coaches_nav_words
      [] fn = "find_football_team_page" -> football_nav_words
      [] fn = "find_coaches_page" -> coaches_page_nav_words

NegativeKeywords(fn) ==
    CASE fn = "find_football_link" -> football_negative_keywords
      [] fn = "find_coaches_or_roster_link" -> coaches_negative_keywords
      [] fn = "find_football_team_page" -> sports_negative_keywords
      [] fn = "find_coaches_page" -> sports_negative_keywords

\* class_=lambda x: x and any(word in x.lower() for word in [...])
InNav(a, fn) ==
    /\ Truthy(a.region)
    /\ \E word \in NavWords(fn) : Contains(Lower(a.region), word)

HasNegative_Never(text, href, fn) == FALSE

\* any(neg_keyword in text.lower() or neg_keyword in href.lower() ...)
HasNegative(text, href, fn) ==
    \E neg_keyword \in NegativeKeywords(fn) :
        Contains(Lower(text), neg_keyword) \/ Contains(Lower(href), neg_keyword)

\* any(keyword in text.lower() or keyword in href.lower() for keyword in ...)
HasKeyword(text, href, keywords) ==
    \E keyword \in keywords : Contains(Lower(text), keyword) \/ Contains(Lower(href), keyword)

At(s, i) == IF i >= 1 /\ i <= Len(s) THEN SubSeq(s, i, i) ELSE ""

DecimalDigits == {"0", "1", "2", "3", "4", "5", "6", "7", "8", "9"}

AllDigits(s, from, n) == \A j \in from..(from + n - 1) : At(s, j) \in DecimalDigits

\* /\d{4}<sep>\d{1,2}<sep>\d{1,2}/ somewhere in href
DatePath(href, sep) ==
    \E i \in 1..Len(href), m \in {1, 2}, d \in {1, 2} :
        /\ At(href, i) = "/"
        /\ AllDigits(href, i + 1, 4)
        /\ At(href, i + 5) = sep
        /\ AllDigits(href, i + 6, m)
        /\ At(href, i + 6 + m) = sep
        /\ AllDigits(href, i + 7 + m, d)
        /\ At(href, i + 7 + m + d) = "/"

HasDate_Never(href) == FALSE

\* re.search(r'/\d{4}/\d{1,2}/\d{1,2}/', href) or re.search(r'/\d{4}-\d{1,2}-\d{1,2}/', href)
HasDate(href) == DatePath(href, "/") \/ DatePath(href, "-")

\* The list one anchor is appended to by the loop body of
\* find_coaches_or_roster_link: "coaches", "roster", or "none".
CoachesOrRosterKind(a) ==
    LET text == Lower(a.text)
        href == a.href
    IN  IF ~Truthy(href) THEN "none"
        ELSE IF HasNegative(text, href, "find_coaches_or_roster_link") THEN "none"
        ELSE IF HasDate(href) THEN "none"
        ELSE IF HasKeyword(text, href, coaches_keywords)
             THEN (IF \/ Contains(Lower(text), "coach") \/ Contains(Lower(text), "staff")
                      \/ Contains(Lower(href), "coach") \/ Contains(Lower(href), "staff")
                   THEN "coaches" ELSE "none")
        ELSE IF HasKeyword(text, href, roster_keywords)
             THEN (IF \/ Contains(Lower(text), "roster") \/ Contains(Lower(href), "roster")
                      \/ Contains(Lower(text), "players") \/ Contains(Lower(href), "players")
                   THEN "roster" ELSE "none")
        ELSE "none"

\* The same for the loop body of find_football_link: "football" or "none".
FootballKind(a) ==
    LET text == Lower(a.text)
        href == a.href
    IN  IF ~Truthy(href) THEN "none"
        ELSE IF HasNegative(text, href, "find_football_link") THEN "none"
        ELSE IF HasKeyword(text, href, football_keywords) THEN "football"
        ELSE "none"

\* The same for the loop body of find_football_team_page.
FootballTeamKind(a) ==
    LET text == Lower(a.text)
        href == a.href
    IN  IF ~Truthy(href) THEN "none"
        ELSE IF HasNegative(text, href, "find_football_team_page") THEN "none"
        ELSE IF HasKeyword(text, href, football_keywords) THEN "football"
        ELSE "none"

\* The same for the loop body of find_coaches_page, which has neither the
\* date filter nor the second look at the matched keyword.
CoachesPageKind(a) ==
    LET text == Lower(a.text)
        href == a.href
    IN  IF ~Truthy(href) THEN "none"
        ELSE IF HasNegative(text, href, "find_coaches_page") THEN "none"
        ELSE IF HasKeyword(text, href, coaches_keywords) THEN "coaches"
        ELSE IF HasKeyword(text, href, roster_keywords) THEN "roster"
        ELSE "none"

(***************************************************************************)
(* The pages the classifiers are run on.                                   *)
(***************************************************************************)
FootballAnchors ==
    { A("/sports/football", "Football", "sports-menu"),
      A("/sports/football/tickets", "Football Tickets", "main-nav"),
      A("/sports/football", "Football Schedule", ""),
      A("/index.aspx?skip=true", "Skip Intro", ""),
      A("/teams/varsityfootball", "Gridiron", ""),
      A(None, "Football", ""),
      A("/sports/fball", "Fball Home", "main-nav") }

CoachesAnchors ==
    { A("/sports/football/coaches", "Coaches", "main-nav"),
      A("/sports/m-soc/coaches", "Soccer Coaches", "main-nav"),
      A("/sports/football/coaches", "Coaches Clinic", ""),
      A("/sports/football/roster?view=list", "Roster", ""),
      A("/football/2019/7/23/coaches-named/", "New coaches named", ""),
      A(None, "Coaching Staff", "main-nav"),
      A("/staff-directory", "Staff Directory", "staff-links"),
      A("/directory", "Directory", ""),
      A("/coaches.aspx?path=football", "Football Staff", ""),
      A("/football/2020-1-5/staff-update", "Staff update", "main-nav"),
      A("/sports/football/roster-directory", "Roster Directory", "") }

AnchorCatalog == FootballAnchors \cup CoachesAnchors

\* the lists each catalogue anchor is appended to, computed once per anchor
AnchorKinds ==
    [a \in AnchorCatalog |->
        [find_coaches_or_roster_link |-> CoachesOrRosterKind(a),
         find_football_link |-> FootballKind(a),
         find_football_team_page |-> FootballTeamKind(a),
         find_coaches_page |-> CoachesPageKind(a)]]

KindOf(a, fn) == AnchorKinds[a][fn]

RECURSIVE SeqsUpTo(_, _)
SeqsUpTo(S, n) ==
    IF n = 0 THEN {<<>>}
    ELSE LET shorter == SeqsUpTo(S, n - 1)
         IN  shorter \cup {Append(s, x) : s \in shorter, x \in S}

PageOf(anchors) ==
    [kind |-> "page", anchors |-> anchors, tables |-> <<>>, elems |-> <<>>]

\* the athletics pages find_football_link reads
FootballLinkPages == {PageOf(as) : as \in SeqsUpTo(FootballAnchors, MaxAnchors)}

\* the football pages find_coaches_or_roster_link reads
CoachesLinkPages == {PageOf(as) : as \in SeqsUpTo(CoachesAnchors, MaxAnchors)}

LinkPages(fn) ==
    IF fn \in {"find_football_link", "find_football_team_page"}
    THEN FootballLinkPages ELSE CoachesLinkPages

\* response.text: the markup of the page
RECURSIVE AnchorsHtml(_)
AnchorsHtml(as) ==
    IF as = <<>> THEN ""
    ELSE LET a == Head(as)
         IN  (IF a.href = None THEN "<a>" ELSE "<a href=\"" \o a.href \o "\">")
                 \o a.text \o "</a>" \o AnchorsHtml(Tail(as))

PageHtml(page) == AnchorsHtml(page.anchors)

WordChars == LowerChars \o UpperChars \o "0123456789_"

IsWordChar(c) == c # "" /\ \E i \in 1..Len(WordChars) : Char(WordChars, i) = c

\* re.search(r'\bword\b', s, re.IGNORECASE) for a literal word
MatchesWord(s, word) ==
    LET t == Lower(s)
        n == Len(word)
    IN  \E i \in 1..(Len(t) - n + 1) :
            /\ SubSeq(t, i, i + n - 1) = word
            /\ ~IsWordChar(At(t, i - 1))
            /\ ~IsWordChar(At(t, i + n))

\* football|fball|football[\s\-]?home|football[\s\-]?team|football[\s\-]?program
FootballPatternWords ==
    {"football", "fball"}
        \cup {"football" \o sep \o w : sep \in {"", " ", "-", "\t", "\n"},
                                        w \in {"home", "team", "program"}}

\* football_pattern.search(response.text)
football_pattern(text) == \E w \in FootballPatternWords : MatchesWord(text, w)

(***************************************************************************)
(* The hosts the pattern probes of a classifier reach: the URLs of the     *)
(* set answer 200 with a body naming football, coaches and roster, every   *)
(* other URL answers 404.                                                  *)
(***************************************************************************)
LiveCoaches == "https://a.edu/sports/football/coaches"

LiveRoster == "https://a.edu/roster"

LiveFootball == "https://a.edu/sports/football"

Webs(fn) ==
    IF fn = "find_football_link" THEN {{}, {LiveFootball}} ELSE {{}, {LiveCoaches}, {LiveRoster}}

WebGet(web, u) ==
    IF u \in web
    THEN [kind |-> "http", status |-> 200, text |-> "<h1>Football</h1> Coaching Staff and Roster"]
    ELSE [kind |-> "http", status |-> 404, text |-> "Page not found"]

\* a whole probe against the web: get_simulate_<cat>_link(base)
RECURSIVE ProbeWalk(_, _)
ProbeWalk(p, web) ==
    IF p.pc = "done" THEN p.result
    ELSE ProbeWalk(PrOnResponse(p, WebGet(web, ProbeUrl(p.base, p.cat, p.i))), web)

get_simulate_link(cat, base, web) == ProbeWalk(PrStart(cat, base), web)

(***************************************************************************)
(* The classifiers as state machines.  A potential link is the joined URL  *)
(* together with the document position of the anchor it was built from.    *)
(***************************************************************************)
NotFound == "Not found"

ClIdle ==
    [pc |-> "idle", fn |-> "find_football_link", url |-> "", page |-> NoPage, web |-> {},
     depth |-> 0, coaches |-> <<>>, roster |-> <<>>, links |-> <<>>,
     result |-> None, via |-> "none", picked |-> 0, probes |-> <<>>,
     nav_hits |-> 0, unscoped |-> FALSE]

\* if url.startswith('//'): url = url.replace('//', '')   (find_football_link only)
\* if not url.startswith(('http://', 'https://')): url = 'https://' + url
NormalizeUrl(url, fn) ==
    LET u == IF fn = "find_football_link" /\ StartsWith(url, "//") THEN Remove(url, "//") ELSE url
    IN  IF StartsWith(u, "http://") \/ StartsWith(u, "https://") THEN u ELSE "https://" \o u

\* the call; find_football_team_page returns None for a URL without netloc
ClStart(fn, url, web, depth) ==
    IF fn = "find_football_team_page" /\ UrlNetloc(NormalizeUrl(url, fn)) = ""
    THEN [ClIdle EXCEPT !.pc = "done", !.fn = fn, !.url = NormalizeUrl(url, fn),
                        !.via = "error"]
    ELSE [ClIdle EXCEPT !.pc = "fetch", !.fn = fn, !.url = NormalizeUrl(url, fn),
                        !.web = web, !.depth = depth]

ClRaise_Propagate(c) == [c EXCEPT !.pc = "done", !.result = None, !.via = "raised"]

\* except Exception as e: return "Not found"   (return None in the finders)
ClRaise(c) ==
    [c EXCEPT !.pc = "done", !.result = IF c.fn \in Classifiers THEN NotFound ELSE None,
              !.via = "error"]

RECURSIVE Positions_Reversed(_, _, _, _, _)
Positions_Reversed(as, k, fn, kind, navOnly) ==
    IF k > Len(as) THEN <<>>
    ELSE Positions_Reversed(as, k + 1, fn, kind, navOnly)
            \o (IF KindOf(as[k], fn) = kind /\ (~navOnly \/ InNav(as[k], fn)) THEN <<k>> ELSE <<>>)

\* the anchors of a scan that go to the list `kind`, in document order
RECURSIVE Positions(_, _, _, _, _)
Positions(as, k, fn, kind, navOnly) ==
    IF k > Len(as) THEN <<>>
    ELSE (IF KindOf(as[k], fn) = kind /\ (~navOnly \/ InNav(as[k], fn)) THEN <<k>> ELSE <<>>)
            \o Positions(as, k + 1, fn, kind, navOnly)

\* full_url = urljoin(url, href); potential_..._links.append(full_url)
RECURSIVE LinksAt(_, _, _)
LinksAt(ks, anchors, url) ==
    IF ks = <<>> THEN <<>>
    ELSE <<[url |-> UrlJoin(url, anchors[Head(ks)].href), anchor |-> Head(ks)]>>
            \o LinksAt(Tail(ks), anchors, url)

PotentialLinks(c, kind, navOnly) ==
    LinksAt(Positions(c.page.anchors, 1, c.fn, kind, navOnly), c.page.anchors, c.url)

\* skip_link = soup.find('a', href=lambda href: href and 'skip=true' in href)
SkipLink(page) == FindHref([k \in 1..Len(page.anchors) |->
                               Node("a", page.anchors[k].text, page.anchors[k].href, None)],
                           "skip=true")

\* for nav in nav_elements: for link in nav.find_all('a'): ...
ClNavScan(c) ==
    IF c.fn \in {"find_football_link", "find_football_team_page"}
    THEN [c EXCEPT !.pc = "all", !.links = PotentialLinks(c, "football", TRUE),
                   !.nav_hits = Len(PotentialLinks(c, "football", TRUE))]
    ELSE [c EXCEPT !.pc = "all", !.coaches = PotentialLinks(c, "coaches", TRUE),
                   !.roster = PotentialLinks(c, "roster", TRUE),
                   !.nav_hits = Len(PotentialLinks(c, "coaches", TRUE))
                                  + Len(PotentialLinks(c, "roster", TRUE))]

\* the scan of soup.find_all('a') when the navigation gave nothing; in
\* find_football_link only when football_pattern finds a match in the page
ClAllScan(c) ==
    IF c.fn \in {"find_football_link", "find_football_team_page"}
    THEN IF c.links = <<>> /\ (c.fn = "find_football_link" => football_pattern(PageHtml(c.page)))
         THEN [c EXCEPT !.pc = "choose", !.links = PotentialLinks(c, "football", FALSE),
                        !.unscoped = TRUE]
         ELSE [c EXCEPT !.pc = "choose"]
    ELSE IF c.coaches = <<>> /\ c.roster = <<>>
         THEN [c EXCEPT !.pc = "choose", !.coaches = PotentialLinks(c, "coaches", FALSE),
                        !.roster = PotentialLinks(c, "roster", FALSE), !.unscoped = TRUE]
         ELSE [c EXCEPT !.pc = "choose"]

FilteredCoachesLinks_None(links) == <<>>

\* filtered_coaches_links: 'football' in link.lower() or 'coaches' in link.lower()
FilteredCoachesLinks(links) ==
    SelectSeq(links, LAMBDA l : Contains(Lower(l.url), "football") \/ Contains(Lower(l.url), "coaches"))

ClPick(c, link, url) ==
    [c EXCEPT !.pc = "done", !.result = url, !.via = "scan", !.picked = link.anchor]

ClProbed(c, url) == [c EXCEPT !.pc = "done", !.result = url, !.via = "probe"]

ClNotFound(c) == [c EXCEPT !.pc = "done", !.result = NotFound, !.via = "none"]

\* the tail of find_football_link, from `if potential_links:`
ClChooseFootball(c) ==
    IF c.links # <<>>
    THEN ClPick(c, c.links[1], SplitFirst(c.links[1].url, "?"))
    ELSE LET simulated_link == get_simulate_link("football", c.url, c.web)
             asked == [c EXCEPT !.probes = <<"football">>]
         IN  IF Truthy(simulated_link) THEN ClProbed(asked, simulated_link)
                                       ELSE ClNotFound(asked)

\* the tail of find_coaches_or_roster_link, from `if filtered_coaches_links:`
ClChooseCoachesOrRoster(c) ==
    LET filtered_coaches_links == FilteredCoachesLinks(c.coaches)
        simulated_coaches_link == get_simulate_link("coaches", c.url, c.web)
        simulated_roster_link == get_simulate_link("roster", c.url, c.web)
        asked_coaches == [c EXCEPT !.probes = <<"coaches">>]
        asked_both == [c EXCEPT !.probes = <<"coaches", "roster">>]
    IN  IF filtered_coaches_links # <<>>
        THEN ClPick(c, filtered_coaches_links[1], filtered_coaches_links[1].url)
        ELSE IF Truthy(simulated_coaches_link)
             THEN ClProbed(asked_coaches, simulated_coaches_link)
        ELSE IF c.roster # <<>>
             THEN ClPick(asked_coaches, c.roster[1], SplitFirst(c.roster[1].url, "?"))
        ELSE IF Truthy(simulated_roster_link) THEN ClProbed(asked_both, simulated_roster_link)
        ELSE ClNotFound(asked_both)

\* `self.ai_parser` of NCAAScraper: __init__ never assigns the attribute
\* (the assignment is commented out), so reading it raises AttributeError
ai_parser_assigned == FALSE

\* `if self.ai_parser:` after a scan that found nothing: the AttributeError
\* is caught by the except of the finder, which returns None
ClAiFallback(c) == IF ai_parser_assigned THEN [c EXCEPT !.pc = "done", !.result = None]
                                         ELSE ClRaise(c)

\* the tail of find_football_team_page, from `if potential_links:`
ClChooseFootballTeamPage(c) ==
    IF c.links # <<>>
    THEN ClPick(c, c.links[1], SplitFirst(c.links[1].url, "?"))
    ELSE ClAiFallback(c)

\* the tail of find_coaches_page, from `if filtered_coaches_links:`
ClChooseCoachesPage(c) ==
    LET filtered_coaches_links == FilteredCoachesLinks(c.coaches)
    IN  IF filtered_coaches_links # <<>>
        THEN ClPick(c, filtered_coaches_links[1], filtered_coaches_links[1].url)
        ELSE IF c.roster # <<>>
             THEN ClPick(c, c.roster[1], SplitFirst(c.roster[1].url, "?"))
        ELSE IF c.coaches # <<>>
             THEN ClPick(c, c.coaches[1], c.coaches[1].url)
        ELSE ClAiFallback(c)

ClChoose(c) ==
    CASE c.fn = "find_football_link" -> ClChooseFootball(c)
      [] c.fn = "find_coaches_or_roster_link" -> ClChooseCoachesOrRoster(c)
      [] c.fn = "find_football_team_page" -> ClChooseFootballTeamPage(c)
      [] c.fn = "find_coaches_page" -> ClChooseCoachesPage(c)

\* the page arrived; find_football_link continues from response.url
\* (`if not html_content: return None` in the finders)
ClFetched(c, page, final_url) ==
    IF page = NoPage THEN [c EXCEPT !.pc = "done", !.result = None, !.via = "error"] ELSE
    [c EXCEPT !.pc = IF c.fn = "find_football_link" THEN "skip" ELSE "nav",
              !.page = page, !.url = final_url]

\* if skip_link: return self.find_football_link(skip_url); the call nested
\* past the interpreter's recursion limit raises, and the raise is caught
ClSkip_Loop(c) ==
    LET skip_link == SkipLink(c.page)
    IN  IF Found(skip_link)
        THEN ClStart(c.fn, UrlJoin(c.url, skip_link.href), c.web, c.depth)
        ELSE [c EXCEPT !.pc = "nav"]

ClSkip(c) ==
    LET skip_link == SkipLink(c.page)
    IN  IF Found(skip_link)
        THEN IF c.depth < RecursionLimit
             THEN ClStart(c.fn, UrlJoin(c.url, skip_link.href), c.web, c.depth + 1)
             ELSE ClRaise(c)
        ELSE [c EXCEPT !.pc = "nav"]

ClassifyUrls(fn) ==
    IF fn = "find_football_link"
    THEN {"https://a.edu", "//a.edu"}
    ELSE {"https://a.edu/sports/football", "a.edu/sports/football"}

Redirects == {"https://a.edu/landing/"}

ClassifyCall ==
    /\ cl.pc = "idle"
    /\ \E fn \in Classifiers :
         \E web \in Webs(fn), url \in ClassifyUrls(fn) : cl' = ClStart(fn, url, web, 0)
    /\ UNCHANGED exceptCl

\* requests.get raised, or raise_for_status did
ClassifyFetchFail ==
    /\ cl.pc = "fetch"
    /\ cl.fn \in Classifiers
    /\ cl' = ClRaise(cl)
    /\ UNCHANGED exceptCl

ClassifyFetchOk ==
    /\ cl.pc = "fetch"
    /\ cl.fn \in Classifiers
    /\ \E page \in LinkPages(cl.fn) :
         \E final_url \in {cl.url} \cup (IF cl.fn = "find_football_link" THEN Redirects ELSE {}) :
            cl' = ClFetched(cl, page, final_url)
    /\ UNCHANGED exceptCl

ClassifySkip ==
    /\ cl.pc = "skip"
    /\ cl' = ClSkip(cl)
    /\ UNCHANGED exceptCl

ClassifyNavScan ==
    /\ cl.pc = "nav"
    /\ cl' = ClNavScan(cl)
    /\ UNCHANGED exceptCl

ClassifyAllScan ==
    /\ cl.pc = "all"
    /\ cl' = ClAllScan(cl)
    /\ UNCHANGED exceptCl

ClassifyChoose ==
    /\ cl.pc = "choose"
    /\ cl' = ClChoose(cl)
    /\ UNCHANGED exceptCl

ClassifyReturn ==
    /\ cl.pc = "done"
    /\ cl' = ClIdle
    /\ UNCHANGED exceptCl

(***************************************************************************)
(* The school pipelines: scrape_school (through scrape_coach_roster and    *)
(* scrape_coach_bios), scrape_coaches_from_roster_url, and the task        *)
(* process_school of the DAG.                                              *)
(***************************************************************************)
\* get_page(self, url, params=None, max_retries: int = 1)
DefaultMaxRetries == 1

\* A whole call of get_page: outcomes holds what each attempt gives in
\* turn, NoPage for an attempt that raises.
RECURSIVE GpRun(_, _)
GpRun(g, outcomes) ==
    CASE g.pc = "attempt" ->
            IF outcomes = <<>> \/ Head(outcomes) = NoPage
            THEN GpRun(GpFail(g), IF outcomes = <<>> THEN <<>> ELSE Tail(outcomes))
            ELSE GpRun(GpSucceed(g, Head(outcomes)), Tail(outcomes))
      [] g.pc = "backoff" -> GpRun(GpBackoff(g), outcomes)
      [] OTHER -> g

get_page(url, outcomes) == GpRun(GpStart(url, DefaultMaxRetries), outcomes).result

\* find_football_team_page(athletics_url) and find_coaches_page(football_url)
FinderCall ==
    /\ cl.pc = "idle"
    /\ \E fn \in Finders :
         \E url \in ClassifyUrls(IF fn = "find_football_team_page" THEN "find_football_link"
                                  ELSE "find_coaches_or_roster_link") :
            cl' = ClStart(fn, url, {}, 0)
    /\ UNCHANGED exceptCl

\* html_content = self.get_page(athletics_url) in a finder called on its own
FinderFetch ==
    /\ cl.pc = "fetch"
    /\ cl.fn \in Finders
    /\ \E body \in LinkPages(cl.fn) \cup {NoPage} :
         cl' = ClFetched(cl, get_page(cl.url, <<body>>), cl.url)
    /\ UNCHANGED exceptCl

\* for coach in coaches: coach['school_id'] = ...; ...; coach['sport'] = 'Football'
Stamp(coach, school_data) ==
    [school_id |-> school_data.school_id, school_name |-> school_data.school_name,
     division |-> school_data.division, conference |-> school_data.conference,
     sport |-> "Football"] @@ coach

StampAll(coaches, school_data) ==
    [k \in 1..Len(coaches) |-> Stamp(coaches[k], school_data)]

School(id, name, athletics_url, coaching_staff_url) ==
    [school_id |-> id, ncaa_institution_id |-> id, school_name |-> name,
     athletics_url |-> athletics_url, division |-> "I", conference |-> "Big Sky",
     coaching_staff_url |-> coaching_staff_url]

Schools ==
    { School("101", "Alpha", "https://a.edu", ""),
      School("102", "Beta", "//a.edu", "https://a.edu/sports/football/coaches"),
      School("103", "Gamma", "", "") }

RosterUrls == {"https://a.edu/sports/football/roster"}

Pipelines == {"scrape_school", "scrape_coaches_from_roster_url", "process_school"}

NoResult == [kind |-> "none"]

\* {'school_data': school_data, 'coaches': [], 'success': False}
FailureResult_Success(school_data) ==
    [school_data |-> school_data, coaches |-> <<>>, success |-> TRUE]

FailureResult(school_data) ==
    [school_data |-> school_data, coaches |-> <<>>, success |-> FALSE]

\* {'school_data': school_data, 'coaches': coaches_with_bios, 'success': True}
SuccessResult(school_data, coaches_with_bios) ==
    [school_data |-> school_data, coaches |-> coaches_with_bios, success |-> TRUE]

NoFile == [exists |-> FALSE, lines |-> <<>>]

\* schools_data.csv as a task finds it: absent, or left by an earlier task
CsvFiles == {NoFile, [exists |-> TRUE, lines |-> <<"header", "100">>]}

PlIdle ==
    [pc |-> "idle", fn |-> "scrape_school", school_data |-> School("", "", "", ""),
     roster_url |-> None, football_url |-> None, coaches_url |-> None, html |-> NoPage,
     coaches |-> <<>>, coaches_with_bios |-> <<>>, i |-> 1,
     result |-> NoResult, raised |-> None, fetches |-> <<>>, csv |-> NoFile,
     context |-> School("", "", "", ""), ai_calls |-> 0]

PlStart(fn, school_data, roster_url, csv) ==
    [PlIdle EXCEPT !.pc = fn, !.fn = fn, !.school_data = school_data, !.context = school_data,
                   !.roster_url = roster_url, !.csv = csv]

\* the exception leaves the pipeline
PlRaise(p, exception) == [p EXCEPT !.pc = "done", !.raised = exception]

PlReturn(p, result) == [p EXCEPT !.pc = "done", !.result = result]

\* html_content = get_page(url), with the log of the fetches the pipeline
\* has made: the stage and whether the page arrived
PlFetched(p, stage, html_content) ==
    [p EXCEPT !.html = html_content,
              !.fetches = Append(@, [stage |-> stage, ok |-> html_content # NoPage])]

\* `if not coaches:` of scrape_school and scrape_coaches_from_roster_url
PlAfterRoster(p, coaches) ==
    IF coaches = <<>>
    THEN PlReturn(p, FailureResult(p.school_data))
    ELSE [p EXCEPT !.pc = "bios", !.coaches = coaches, !.i = 1, !.coaches_with_bios = <<>>]

\* the pages of a school's site, by the stage that fetches them
SitePages(stage) ==
    CASE stage = "athletics" -> {PageOf(<<a>>) : a \in FootballAnchors} \cup {PageOf(<<>>)}
      [] stage = "football" -> {PageOf(<<a>>) : a \in CoachesAnchors} \cup {PageOf(<<>>)}
      [] stage = "coaches" -> ListingPages
      [] stage = "profile" -> SamplePages

PipelineCall ==
    /\ pl.pc = "idle"
    /\ \E fn \in Pipelines, school_data \in Schools :
         \E roster_url \in (IF fn = "scrape_coaches_from_roster_url" THEN RosterUrls ELSE {None}),
            csv \in (IF fn = "process_school" THEN CsvFiles ELSE {NoFile}) :
              pl' = PlStart(fn, school_data, roster_url, csv)
    /\ UNCHANGED exceptPl

\* the start of scrape_coach_roster: [] for a school without athletics_url
ScrapeCoachRoster ==
    /\ pl.pc = "scrape_school"
    /\ IF ~Truthy(pl.school_data.athletics_url)
       THEN pl' = PlAfterRoster(pl, <<>>)
       ELSE pl' = [pl EXCEPT !.pc = "find_football"]
    /\ UNCHANGED exceptPl

\* the start of scrape_coaches_from_roster_url:
\* coaches_url = school_data.get('coaching_staff_url') or roster_url
ScrapeFromRosterUrl ==
    /\ pl.pc = "scrape_coaches_from_roster_url"
    /\ pl' = [pl EXCEPT !.pc = "fetch_coaches",
                        !.coaches_url = IF Truthy(pl.school_data.coaching_staff_url)
                                        THEN pl.school_data.coaching_staff_url ELSE pl.roster_url]
    /\ UNCHANGED exceptPl

\* html_content = self.get_page(coaches_url), with the default max_retries
PipelineGetPage ==
    /\ pl.pc = "fetch_coaches"
    /\ \E body \in SitePages("coaches") \cup {NoPage} :
         pl' = [PlFetched(pl, "coaches", get_page(pl.coaches_url, <<body>>))
                   EXCEPT !.pc = "extract"]
    /\ UNCHANGED exceptPl

\* football_url = self.find_football_team_page(athletics_url) and
\* coaches_url = self.find_coaches_page(football_url): the call
RosterFindPage ==
    /\ pl.pc \in {"find_football", "find_coaches"}
    /\ cl.pc = "idle"
    /\ cl' = IF pl.pc = "find_football"
             THEN ClStart("find_football_team_page", pl.school_data.athletics_url, {}, 0)
             ELSE ClStart("find_coaches_page", pl.football_url, {}, 0)
    /\ pl' = [pl EXCEPT !.pc = IF pl.pc = "find_football" THEN "wait_football" ELSE "wait_coaches"]
    /\ UNCHANGED <<gp, pr, ex, dag>>

\* html_content = self.get_page(athletics_url) inside a finder
FinderGetPage ==
    /\ cl.pc = "fetch"
    /\ cl.fn \in Finders
    /\ \E body \in SitePages(IF cl.fn = "find_football_team_page" THEN "athletics"
                                                                    ELSE "football")
                       \cup {NoPage} :
         /\ cl' = ClFetched(cl, get_page(cl.url, <<body>>), cl.url)
         /\ pl' = PlFetched(pl, IF cl.fn = "find_football_team_page" THEN "athletics"
                                                                     ELSE "football",
                            get_page(cl.url, <<body>>))
    /\ UNCHANGED <<gp, pr, ex, dag>>

LinkFound_Always(url) == TRUE

\* `if not football_url:` and `if not coaches_url:` are the negation
LinkFound(url) == Truthy(url)

\* the finder has returned: `if not football_url: return []` and
\* `if not coaches_url: return []`
RosterPageFound ==
    /\ pl.fn = "scrape_school"
    /\ pl.pc \in {"wait_football", "wait_coaches"}
    /\ cl.pc = "done"
    /\ cl' = ClIdle
    /\ IF ~LinkFound(cl.result)
       THEN pl' = PlAfterRoster(pl, <<>>)
       ELSE IF pl.pc = "wait_football"
            THEN pl' = [pl EXCEPT !.pc = "find_coaches", !.football_url = cl.result]
            ELSE pl' = [pl EXCEPT !.pc = "fetch_coaches", !.coaches_url = cl.result]
    /\ UNCHANGED <<gp, pr, ex, dag>>

\* after the fetch of the coaches page: `if not html_content`, the
\* extraction, and in scrape_coach_roster the school stamped on each coach.
\* self.ai_parser.extract_coach_roster is called only in the handler of an
\* exception of the extraction, so a list that is returned, empty or not,
\* leaves ai_calls, the number of calls of the AI parser, as it is.
ExtractListing ==
    /\ pl.pc = "extract"
    /\ IF pl.html = NoPage
       THEN pl' = PlAfterRoster(pl, <<>>)
       ELSE IF pl.fn = "scrape_school"
            THEN pl' = PlAfterRoster(pl,
                          StampAll(extract_coach_listings_bs4(pl.html, pl.coaches_url),
                                   pl.school_data))
            ELSE pl' = PlAfterRoster(pl, extract_coach_listings_bs4(pl.html, pl.coaches_url))
    /\ UNCHANGED exceptPl

HasProfileUrl_Always(coach) == TRUE

\* profile_url = coach.get('profile_url'): `if not profile_url` is the negation
HasProfileUrl(coach) == Truthy(coach.profile_url)

KeepCoach_Drop(p, coach) == [p EXCEPT !.i = @ + 1]

\* coaches_with_bios.append(coach); continue
KeepCoach(p, coach) == [p EXCEPT !.coaches_with_bios = Append(@, coach), !.i = @ + 1]

\* one turn of the loop of scrape_coach_bios, or the return after the loop.
\* A profile page that arrives gets to the arguments of parse_with_fallback,
\* where self.ai_parser.extract_coach_bio raises AttributeError; nothing
\* between there and the caller of the pipeline catches it.
ScrapeCoachBios ==
    /\ pl.pc = "bios"
    /\ IF pl.i > Len(pl.coaches)
       THEN pl' = PlReturn(pl, SuccessResult(pl.school_data, pl.coaches_with_bios))
       ELSE LET coach == pl.coaches[pl.i]
                kept == KeepCoach(pl, coach)
            IN  IF ~HasProfileUrl(coach)
                THEN pl' = kept
                ELSE \E body \in SitePages("profile") \cup {NoPage} :
                       LET html_content == get_page(coach.profile_url, <<body>>)
                       IN  IF html_content = NoPage
                           THEN pl' = PlFetched(kept, "profile", html_content)
                           ELSE IF ai_parser_assigned
                                THEN pl' = PlFetched(kept, "profile", html_content)
                                ELSE pl' = PlRaise(PlFetched(pl, "profile", html_content),
                                                   "AttributeError")
    /\ UNCHANGED exceptPl

\* process_school: the required fields and the form of the athletics URL
ProcessValidate ==
    /\ pl.pc = "process_school"
    /\ LET missing_fields == {field \in {"ncaa_institution_id", "school_name", "athletics_url"} :
                                ~Truthy(pl.school_data[field])}
           athletics_url == NormalizeUrl(pl.school_data.athletics_url, "find_football_link")
       IN  IF missing_fields # {}
           THEN pl' = PlRaise(pl, "ValueError")
           ELSE pl' = [pl EXCEPT !.pc = "football_link",
                                 !.school_data = [@ EXCEPT !.athletics_url = athletics_url]]
    /\ UNCHANGED exceptPl

\* scraper.find_football_link(athletics_url) and
\* scraper.find_coaches_or_roster_link(football_url): the call
ProcessFindLink ==
    /\ pl.pc \in {"football_link", "roster_link"}
    /\ cl.pc = "idle"
    /\ LET fn == IF pl.pc = "football_link" THEN "find_football_link"
                                            ELSE "find_coaches_or_roster_link"
           url == IF pl.pc = "football_link" THEN pl.school_data.athletics_url
                                             ELSE pl.football_url
       IN  \E web \in Webs(fn) : cl' = ClStart(fn, url, web, 0)
    /\ pl' = [pl EXCEPT !.pc = IF pl.pc = "football_link" THEN "wait_football" ELSE "wait_roster"]
    /\ UNCHANGED <<gp, pr, ex, dag>>

\* the page of the school's site that a classifier called by the task gets
SiteFetchOk ==
    /\ cl.pc = "fetch"
    /\ cl.fn \in Classifiers
    /\ \E page \in SitePages(IF cl.fn = "find_football_link" THEN "athletics" ELSE "football") :
         cl' = ClFetched(cl, page, cl.url)
    /\ UNCHANGED exceptCl

\* the classifier has returned: `if football_url == "Not found"` and
\* `if roster_url == "Not found"` raise AirflowFailException
ProcessLinkFound ==
    /\ pl.fn = "process_school"
    /\ pl.pc \in {"wait_football", "wait_roster"}
    /\ cl.pc = "done"
    /\ cl' = ClIdle
    /\ IF cl.result = NotFound
       THEN pl' = PlRaise(pl, "AirflowFailException")
       ELSE IF pl.pc = "wait_football"
            THEN pl' = [pl EXCEPT !.pc = "roster_link", !.football_url = cl.result]
            ELSE pl' = [pl EXCEPT !.pc = "export", !.roster_url = cl.result]
    /\ UNCHANGED <<gp, pr, ex, dag>>

\* file_exists = os.path.isfile(csv_path); open(csv_path, 'a'); the header
\* when the file was not there; the row
CsvAppend(file, row) ==
    [exists |-> TRUE,
     lines |-> file.lines \o (IF file.exists THEN <<>> ELSE <<"header">>) \o <<row>>]

ProcessResult(p) ==
    [school_name |-> p.school_data.school_name, school_id |-> p.school_data.ncaa_institution_id,
     football_url |-> p.football_url, roster_url |-> p.roster_url]

\* the export to CSV, whose errors are logged and dropped, and the return
ProcessExport ==
    /\ pl.pc = "export"
    /\ \E written \in BOOLEAN :
         pl' = [PlReturn(pl, ProcessResult(pl)) EXCEPT
                   !.csv = IF written THEN CsvAppend(@, pl.school_data.ncaa_institution_id) ELSE @]
    /\ UNCHANGED exceptPl

PipelineReturn ==
    /\ pl.pc = "done"
    /\ pl' = PlIdle
    /\ UNCHANGED exceptPl

(***************************************************************************)
(* A run of the DAG (src/child_scraping_dag_v2.py): one process_school     *)
(* task per school, up to max_active_tasks of them running at once, each   *)
(* with an NCAAScraper of its own, all exporting to data/output/           *)
(* schools_data.csv.  A task's steps are interleaved with those of the     *)
(* others at its accesses to the file system.                              *)
(***************************************************************************)
\* the school_data of the task created for the i-th school of the list
TaskSchool(i) ==
    School(ToString(100 + i), "School " \o ToString(i),
           IF i % 3 = 0 THEN "" ELSE "//s" \o ToString(i) \o ".edu", "")

\* what a classifier called by a task returns
TaskLinks(pc, athletics_url) ==
    IF pc = "football_link"
    THEN {NotFound, UrlJoin(athletics_url, "/sports/football")}
    ELSE {NotFound, UrlJoin(athletics_url, "/sports/football/coaches")}

TaskIdle(i) ==
    [pc |-> "process_school", school_data |-> TaskSchool(i), football_url |-> None,
     roster_url |-> None, file_exists |-> FALSE, result |-> NoResult, raised |-> None]

\* csv: schools_data.csv; readers and writers: the tasks that have done
\* os.path.isfile on it and the tasks that have written to it
DagIdle ==
    [tasks |-> [i \in 1..MaxTasks |-> TaskIdle(i)], csv |-> NoFile,
     readers |-> {}, writers |-> {}]

Task(i) == dag.tasks[i]

TaskSet(i, t) == [dag EXCEPT !.tasks[i] = t]

\* required fields and the form of the athletics URL
TaskValidate(i) ==
    /\ Task(i).pc = "process_school"
    /\ LET school_data == Task(i).school_data
           missing_fields == {field \in {"ncaa_institution_id", "school_name", "athletics_url"} :
                                ~Truthy(school_data[field])}
           athletics_url == NormalizeUrl(school_data.athletics_url, "find_football_link")
       IN  IF missing_fields # {}
           THEN dag' = TaskSet(i, [Task(i) EXCEPT !.pc = "failed", !.raised = "ValueError"])
           ELSE dag' = TaskSet(i, [Task(i) EXCEPT !.pc = "football_link",
                                      !.school_data = [@ EXCEPT !.athletics_url = athletics_url]])
    /\ UNCHANGED exceptDag

\* scraper.find_football_link(athletics_url) and
\* scraper.find_coaches_or_roster_link(football_url) on the task's own scraper
TaskFindLink(i) ==
    /\ Task(i).pc \in {"football_link", "roster_link"}
    /\ \E url \in TaskLinks(Task(i).pc, Task(i).school_data.athletics_url) :
         IF url = NotFound
         THEN dag' = TaskSet(i, [Task(i) EXCEPT !.pc = "failed",
                                                !.raised = "AirflowFailException"])
         ELSE IF Task(i).pc = "football_link"
              THEN dag' = TaskSet(i, [Task(i) EXCEPT !.pc = "roster_link",
                                                     !.football_url = url])
              ELSE dag' = TaskSet(i, [Task(i) EXCEPT !.pc = "isfile", !.roster_url = url])
    /\ UNCHANGED exceptDag

\* file_exists = os.path.isfile(csv_path)
TaskIsFile(i) ==
    /\ Task(i).pc = "isfile"
    /\ dag' = [TaskSet(i, [Task(i) EXCEPT !.pc = "write", !.file_exists = dag.csv.exists])
                  EXCEPT !.readers = @ \cup {i}]
    /\ UNCHANGED exceptDag

\* with open(csv_path, 'a', ...): writeheader() if not file_exists; writerow(csv_data)
CsvWrite(file, file_exists, row) ==
    [exists |-> TRUE,
     lines |-> file.lines \o (IF file_exists THEN <<>> ELSE <<"header">>) \o <<row>>]

TaskWrite(i) ==
    /\ Task(i).pc = "write"
    /\ dag' = [TaskSet(i, [Task(i) EXCEPT !.pc = "return"])
                  EXCEPT !.csv = CsvWrite(@, Task(i).file_exists,
                                          Task(i).school_data.ncaa_institution_id),
                         !.writers = @ \cup {i}]
    /\ UNCHANGED exceptDag

\* an error of the export is logged and dropped
TaskExportError(i) ==
    /\ Task(i).pc \in {"isfile", "write"}
    /\ dag' = TaskSet(i, [Task(i) EXCEPT !.pc = "return"])
    /\ UNCHANGED exceptDag

\* return result
TaskReturn(i) ==
    /\ Task(i).pc = "return"
    /\ dag' = TaskSet(i, [Task(i) EXCEPT !.pc = "done",
                 !.result = [school_name |-> Task(i).school_data.school_name,
                             school_id |-> Task(i).school_data.ncaa_institution_id,
                             football_url |-> Task(i).football_url,
                             roster_url |-> Task(i).roster_url]])
    /\ UNCHANGED exceptDag

\* the DAG is triggered with schools_data.csv absent or left by an earlier run
DagTrigger ==
    /\ dag = DagIdle
    /\ dag' = [DagIdle EXCEPT !.csv = [exists |-> TRUE, lines |-> <<"header", "100">>]]
    /\ UNCHANGED exceptDag

(***************************************************************************)
(* Specifications.                                                         *)
(***************************************************************************)
AllIdle ==
    /\ gp = GpIdle
    /\ pr = PrIdle
    /\ cl = ClIdle
    /\ ex = ExIdle
    /\ pl = PlIdle
    /\ dag = DagIdle

FetchInit == AllIdle

FetchNext ==
    \/ GetPageCall
    \/ GetPageAttemptOk
    \/ GetPageAttemptFail
    \/ GetPageBackoff
    \/ GetPageReturn

FetchSpec == FetchInit /\ [][FetchNext]_vars

ProbeInit == AllIdle

ProbeNext ==
    \/ ProbeCall
    \/ ProbeRequestError
    \/ ProbeRequestAnswered
    \/ ProbeReturn

ProbeSpec == ProbeInit /\ [][ProbeNext]_vars

ExtractInit == AllIdle

ExtractNext ==
    \/ ExtractCall
    \/ ExtractTable
    \/ ExtractSelectors
    \/ ExtractGeneric
    \/ ExtractProcess
    \/ ExtractReturn

ExtractSpec == ExtractInit /\ [][ExtractNext]_vars

ClassifyInit == AllIdle

ClassifyNext ==
    \/ ClassifyCall
    \/ ClassifyFetchFail
    \/ ClassifyFetchOk
    \/ FinderCall
    \/ FinderFetch
    \/ ClassifySkip
    \/ ClassifyNavScan
    \/ ClassifyAllScan
    \/ ClassifyChoose
    \/ ClassifyReturn

ClassifySpec == ClassifyInit /\ [][ClassifyNext]_vars

PipelineInit == AllIdle

PipelineNext ==
    \/ PipelineCall
    \/ ScrapeCoachRoster
    \/ RosterFindPage
    \/ FinderGetPage
    \/ RosterPageFound
    \/ ScrapeFromRosterUrl
    \/ PipelineGetPage
    \/ ExtractListing
    \/ ScrapeCoachBios
    \/ ProcessValidate
    \/ ProcessFindLink
    \/ ClassifyFetchFail
    \/ SiteFetchOk
    \/ ClassifySkip
    \/ ClassifyNavScan
    \/ ClassifyAllScan
    \/ ClassifyChoose
    \/ ProcessLinkFound
    \/ ProcessExport
    \/ PipelineReturn

PipelineSpec == PipelineInit /\ [][PipelineNext]_vars

DagInit == AllIdle

DagNext ==
    \/ DagTrigger
    \/ \E i \in 1..MaxTasks : TaskValidate(i)
    \/ \E i \in 1..MaxTasks : TaskFindLink(i)
    \/ \E i \in 1..MaxTasks : TaskIsFile(i)
    \/ \E i \in 1..MaxTasks : TaskWrite(i)
    \/ \E i \in 1..MaxTasks : TaskExportError(i)
    \/ \E i \in 1..MaxTasks : TaskReturn(i)

DagSpec == DagInit /\ [][DagNext]_vars

(***************************************************************************)
(* Claims about get_page.                                                  *)
(***************************************************************************)
AllFailed(log) == \A k \in 1..Len(log) : log[k] = "fail"

C9_BoundedAttempts ==
    /\ Len(gp.log) <= gp.max_retries
    /\ gp.pc \in {"attempt", "backoff"}
          => ENABLED (GetPageAttemptOk \/ GetPageAttemptFail \/ GetPageBackoff)
    /\ \A k \in 1..(Len(gp.log) - 1) : gp.log[k] = "fail"
    /\ gp.pc = "done" =>
          IF gp.log # <<>> /\ gp.log[Len(gp.log)] = "ok"
          THEN gp.result \in SamplePages
          ELSE gp.result = NoPage /\ Len(gp.log) = gp.max_retries
    /\ (gp.log # <<>> /\ gp.log[Len(gp.log)] = "ok") => gp.pc = "done"

C9_Witness ==
    /\ gp.pc = "done"
    /\ gp.log = <<"fail", "fail", "ok">>
    /\ gp.result \in SamplePages

(***************************************************************************)
(* Claims about extract_coach_listings_bs4.                                *)
(***************************************************************************)
\* C1: every record the extractor has collected, by whichever strategy,
\* has a name field that is neither None nor empty nor whitespace only.
C1_EveryRecordNamed ==
    \A i \in 1..Len(ex.coaches) :
        /\ "name" \in DOMAIN ex.coaches[i]
        /\ ex.coaches[i].name # None
        /\ Strip(ex.coaches[i].name) # ""

C1_Witness ==
    /\ ex.pc = "done"
    /\ ex.started = <<"table", "css">>
    /\ ex.coach_elements = <<ElemBlankHeading, ElemTextOnly>>
    /\ Len(ex.result) = 1
    /\ ex.result[1].name = "Pat Kim"

\* C6: when the structured-table strategy yields a record, neither the
\* CSS-pattern strategy nor the generic scan is started, and the result is
\* exactly the records of the table strategy.
C6_TableShortCircuit ==
    TableRecords(ex.page.tables, ex.base_url) # <<>> =>
        /\ ex.pc \in {"table", "done"}
        /\ ex.pc = "done" =>
             /\ ex.started = <<"table">>
             /\ ex.result = TableRecords(ex.page.tables, ex.base_url)

C6_Witness ==
    /\ ex.pc = "done"
    /\ ex.started = <<"table">>
    /\ Len(ex.result) = 1
    /\ ex.page.elems = <<ElemCard>>

InStarted(name) == \E i \in 1..Len(ex.started) : ex.started[i] = name

\* C7 as stated: a strategy that produced no record is followed by the
\* next one, also when the CSS-pattern strategy matched elements of which
\* none gave a record.
C7_NextOnEmptyAsStated ==
    ex.pc = "done" =>
        /\ ex.result = <<>> => InStarted("css")
        /\ (InStarted("css") /\ ex.result = <<>>) => InStarted("generic")

\* C7 (amended): the result is the table records when there are any; else
\* the candidates are the elements of the first container selector that
\* matches an element, and the generic scan runs only when no selector
\* matches one.  Elements matched by a selector are the only candidates
\* even when none of them gives a record.
C7_CascadeBySelectorMatch ==
    ex.pc = "done" =>
        LET table == TableRecords(ex.page.tables, ex.base_url)
            selected == FirstSelection(ex.page.elems, container_selectors)
            generic == GenericCandidates(ex.page.elems)
        IN  /\ InStarted("css") <=> table = <<>>
            /\ InStarted("generic") <=> (table = <<>> /\ selected = <<>>)
            /\ ex.result =
                 IF table # <<>> THEN table
                 ELSE IF selected # <<>> THEN ElementsRecords(selected, ex.base_url)
                 ELSE ElementsRecords(generic, ex.base_url)

C7_Witness ==
    /\ ex.pc = "done"
    /\ ex.started = <<"table", "css">>
    /\ ex.coach_elements = <<ElemBlankHeading>>
    /\ ex.result = <<>>
    /\ GenericCandidates(ex.page.elems) # <<>>

(***************************************************************************)
(* Claims about the pattern probes.                                        *)
(***************************************************************************)
\* C10: a probe returns the absolute URL of the first suffix of its list
\* whose response had status 200 and a corroborating keyword in its body;
\* every candidate before it was passed over, no candidate after it is
\* requested, and None is returned only after every candidate of the list
\* was requested and none qualified.
C10_ProbeFirstCorroborated ==
    /\ pr.pc = "request" => (pr.firstQ = 0 /\ pr.asked = pr.i - 1 /\ pr.result = None)
    /\ pr.pc = "done" =>
          IF pr.firstQ # 0
          THEN /\ pr.result = UrlOrigin(pr.base) \o ProbePatterns(pr.cat)[pr.firstQ]
               /\ pr.asked = pr.firstQ
          ELSE /\ pr.result = None
               /\ pr.asked = Len(ProbePatterns(pr.cat))

C10_Witness ==
    /\ pr.pc = "done"
    /\ pr.cat = "coaches"
    /\ pr.base = "https://a.edu/sports/football"
    /\ pr.firstQ = 3
    /\ pr.result = "https://a.edu/football/coaches"

(***************************************************************************)
(* Claims about the link classifiers.                                      *)
(***************************************************************************)
\* the anchors of the catalogue whose href or visible text holds a negative
\* keyword of the classifier, read off the keyword lists
NegativeAnchors ==
    [fn \in Classifiers |->
        {a \in AnchorCatalog :
            \E kw \in NegativeKeywords(fn) :
                \/ Contains(Lower(a.text), kw)
                \/ a.href # None /\ Contains(Lower(a.href), kw)}]

\* the anchors that match a positive keyword of the classifier
PositiveAnchors ==
    [fn \in Classifiers |->
        {a \in AnchorCatalog :
            \E kw \in (IF fn = "find_football_link" THEN football_keywords
                       ELSE coaches_keywords \cup roster_keywords) :
                \/ Contains(Lower(a.text), kw)
                \/ a.href # None /\ Contains(Lower(a.href), kw)}]

\* C2: the URL a link classifier returns from its scan of the anchors is the
\* URL of an anchor that matches no negative keyword, neither in its href nor
\* in its visible text: an anchor with a negative keyword is never the one
\* the classifier picks, whatever positive keywords it matches as well.
C2_NegativeNeverPicked ==
    (cl.pc = "done" /\ cl.via = "scan" /\ cl.fn \in Classifiers) =>
        /\ cl.picked \in 1..Len(cl.page.anchors)
        /\ cl.page.anchors[cl.picked] \notin NegativeAnchors[cl.fn]
        /\ cl.page.anchors[cl.picked] \in PositiveAnchors[cl.fn]
        /\ cl.result = SplitFirst(UrlJoin(cl.url, cl.page.anchors[cl.picked].href), "?")
             \/ cl.result = UrlJoin(cl.url, cl.page.anchors[cl.picked].href)

\* a page whose first anchor matches a negative and a positive keyword, and
\* whose later anchor is the one returned
C2_Witness ==
    /\ cl.fn \in Classifiers
    /\ cl.pc = "done"
    /\ cl.via = "scan"
    /\ cl.result # NotFound
    /\ \E k \in 1..Len(cl.page.anchors) :
         /\ k < cl.picked
         /\ cl.page.anchors[k] \in NegativeAnchors[cl.fn]
         /\ cl.page.anchors[k] \in PositiveAnchors[cl.fn]
         /\ cl.page.anchors[k].href # None

(***************************************************************************)
(* C3: no exception propagates out of scrape_school,                       *)
(* scrape_coaches_from_roster_url or process_school: a pipeline that has   *)
(* ended has ended by returning, never by raising.                         *)
(***************************************************************************)
C3_NoExceptionEscapes == pl.pc = "done" => pl.raised = None

(***************************************************************************)
(* C4: when a fetch of scrape_school's discovery chain (the athletics      *)
(* page, the football page, the coaches page) or the fetch of              *)
(* scrape_coaches_from_roster_url fails on its only attempt, the pipeline  *)
(* returns {school_data, coaches: [], success: False} and raises nothing.  *)
(***************************************************************************)
C4_FetchFailureGivesFailureResult ==
    \A k \in 1..Len(pl.fetches) :
        ( /\ pl.fn \in {"scrape_school", "scrape_coaches_from_roster_url"}
          /\ pl.pc = "done"
          /\ pl.fetches[k].stage \in {"athletics", "football", "coaches"}
          /\ ~pl.fetches[k].ok )
        => /\ pl.raised = None
           /\ pl.result.school_data = pl.school_data
           /\ pl.result.coaches = <<>>
           /\ pl.result.success = FALSE

\* scrape_school has found the football page and the coaches link, then the
\* fetch of the coaches page has failed
C4_Witness ==
    /\ pl.fn = "scrape_school"
    /\ pl.pc = "done"
    /\ Len(pl.fetches) = 3
    /\ pl.fetches[1].ok /\ pl.fetches[2].ok
    /\ pl.fetches[3].stage = "coaches" /\ ~pl.fetches[3].ok
    /\ pl.result # NoResult
    /\ ~pl.result.success

(***************************************************************************)
(* C11: process_school tasks running at once share no mutable state: no    *)
(* file is read or written by two different tasks.                         *)
(***************************************************************************)
C11_NoSharedResource == Cardinality(dag.readers \cup dag.writers) <= 1

(***************************************************************************)
(* C12: every coach record a school pipeline returns carries the           *)
(* school_id, school_name, division and conference of the school context   *)
(* it was called with, and the pipeline leaves that context as it was.     *)
(***************************************************************************)
SchoolFields == {"school_id", "school_name", "division", "conference"}

C12_RecordsCarrySchoolContext ==
    (pl.pc = "done" /\ pl.raised = None) =>
        /\ pl.school_data = pl.context
        /\ pl.fn \in {"scrape_school", "scrape_coaches_from_roster_url"} =>
             \A k \in 1..Len(pl.result.coaches) :
                /\ SchoolFields \subseteq DOMAIN pl.result.coaches[k]
                /\ \A f \in SchoolFields : pl.result.coaches[k][f] = pl.context[f]

(***************************************************************************)
(* C13: find_football_link and find_coaches_or_roster_link never raise:    *)
(* whatever the page request gives (an error, a page with or without a     *)
(* matching anchor, a chain of splash pages), the call ends by returning   *)
(* a URL string or the string "Not found".                                 *)
(***************************************************************************)
C13_ClassifiersNeverRaise ==
    (cl.pc = "done" /\ cl.fn \in Classifiers) =>
        /\ cl.via # "raised"
        /\ \/ cl.result = NotFound
           \/ StartsWith(cl.result, "https://") \/ StartsWith(cl.result, "http://")
        /\ cl.via = "error" => cl.result = NotFound

\* the request failed, or the splash pages nested past the recursion limit
C13_Witness ==
    /\ cl.pc = "done"
    /\ cl.fn = "find_football_link"
    /\ cl.via = "error"
    /\ cl.depth = RecursionLimit
    /\ cl.page # NoPage
    /\ cl.result = NotFound

(***************************************************************************)
(* C14: in find_coaches_or_roster_link the pattern probe is a fallback for *)
(* a classification that yielded nothing: when the page gave a coaches or  *)
(* a roster candidate, no probe URL is requested and the result is not a   *)
(* probed URL.                                                             *)
(***************************************************************************)
C14_ProbeOnlyWhenNothingClassified ==
    ( /\ cl.pc = "done"
      /\ cl.fn = "find_coaches_or_roster_link"
      /\ (cl.coaches # <<>> \/ cl.roster # <<>>) )
    => (cl.probes = <<>> /\ cl.via # "probe")

(***************************************************************************)
(* C15: in the combined coaches+roster search (find_coaches_or_roster_link *)
(* and find_coaches_page), when a coaches candidate has 'football' or      *)
(* 'coaches' in its absolute URL, the first such candidate is returned     *)
(* with its query kept, whatever roster candidates there are and wherever  *)
(* they stand in the document.                                             *)
(***************************************************************************)
CombinedSearch == {"find_coaches_or_roster_link", "find_coaches_page"}

FootballOrCoachesUrl(url) == Contains(Lower(url), "football") \/ Contains(Lower(url), "coaches")

C15_FootballCoachesMatchFirst ==
    \A k \in 1..Len(cl.coaches) :
        ( /\ cl.pc = "done"
          /\ cl.fn \in CombinedSearch
          /\ FootballOrCoachesUrl(cl.coaches[k].url)
          /\ \A j \in 1..(k - 1) : ~FootballOrCoachesUrl(cl.coaches[j].url) )
        => /\ cl.via = "scan"
           /\ cl.result = cl.coaches[k].url
           /\ cl.picked = cl.coaches[k].anchor
           /\ cl.probes = <<>>

\* a roster anchor stands before the coaches anchor that is returned, and
\* the returned URL has kept its query
C15_Witness ==
    /\ cl.pc = "done"
    /\ cl.fn \in CombinedSearch
    /\ cl.via = "scan"
    /\ cl.roster # <<>>
    /\ cl.coaches # <<>>
    /\ cl.roster[1].anchor < cl.coaches[1].anchor
    /\ cl.result = cl.coaches[1].url
    /\ Contains(cl.result, "?")

(***************************************************************************)
(* C16: in the combined coaches+roster search, when the classification     *)
(* finds roster candidates and no coaches candidate, the result is the     *)
(* first roster candidate cut at its first '?'.                            *)
(***************************************************************************)
C16_RosterOnlyStripped ==
    ( /\ cl.pc = "done"
      /\ cl.fn \in CombinedSearch
      /\ cl.coaches = <<>>
      /\ cl.roster # <<>> )
    => cl.result = SplitFirst(cl.roster[1].url, "?")

(***************************************************************************)
(* C17: in the combined coaches+roster search, when the only candidates    *)
(* are coaches candidates with neither 'football' nor 'coaches' in their   *)
(* URL, the first of them is returned with its query kept, and not         *)
(* "Not found".                                                            *)
(***************************************************************************)
C17_GeneralCoachesMatchLast ==
    ( /\ cl.pc = "done"
      /\ cl.fn \in CombinedSearch
      /\ cl.roster = <<>>
      /\ cl.coaches # <<>>
      /\ \A k \in 1..Len(cl.coaches) : ~FootballOrCoachesUrl(cl.coaches[k].url) )
    => cl.result = cl.coaches[1].url

(***************************************************************************)
(* C18: in find_coaches_or_roster_link an anchor whose href has a date     *)
(* path, /YYYY/M/D/ or /YYYY-M-D/ with a 4-digit year and 1-2 digit month  *)
(* and day, is never a candidate in either pass, so the URL a scan returns *)
(* is never taken from such an anchor.                                     *)
(***************************************************************************)
RECURSIVE SplitAll(_, _)
SplitAll(s, sep) ==
    LET i == IndexOf(s, sep, 1)
    IN  IF i = 0 THEN <<s>> ELSE <<SubSeq(s, 1, i - 1)>> \o SplitAll(SubSeq(s, i + 1, Len(s)), sep)

IsNumber(s, lengths) ==
    Len(s) \in lengths /\ \A j \in 1..Len(s) : Char(s, j) \in DecimalDigits

IsDate(parts) ==
    Len(parts) = 3 /\ IsNumber(parts[1], {4}) /\ IsNumber(parts[2], {1, 2})
                   /\ IsNumber(parts[3], {1, 2})

\* the anchors of the catalogue with a date between two '/' of the href
DateAnchors ==
    {a \in AnchorCatalog :
        /\ a.href # None
        /\ LET segs == SplitAll(a.href, "/")
           IN  \/ \E i \in 2..(Len(segs) - 3) : IsDate(SubSeq(segs, i, i + 2))
               \/ \E i \in 2..(Len(segs) - 1) : IsDate(SplitAll(segs[i], "-"))}

C18_DatePathNeverCandidate ==
    (cl.fn = "find_coaches_or_roster_link" /\ cl.page # NoPage) =>
        /\ \A k \in 1..Len(cl.coaches) : cl.page.anchors[cl.coaches[k].anchor] \notin DateAnchors
        /\ \A k \in 1..Len(cl.roster) : cl.page.anchors[cl.roster[k].anchor] \notin DateAnchors
        /\ (cl.pc = "done" /\ cl.via = "scan") => cl.page.anchors[cl.picked] \notin DateAnchors

\* a navigation anchor with a date path and a coaches keyword stands before
\* the anchor that is returned
C18_Witness ==
    /\ cl.fn = "find_coaches_or_roster_link"
    /\ cl.pc = "done"
    /\ cl.via = "scan"
    /\ \E k \in 1..Len(cl.page.anchors) :
         /\ k < cl.picked
         /\ cl.page.anchors[k] \in DateAnchors
         /\ cl.page.anchors[k].region # ""
         /\ cl.page.anchors[cl.picked].region # ""

(***************************************************************************)
(* C19: navigation anchors are preferred: the pass over all anchors of the *)
(* page is run exactly when the navigation pass produced no candidate, and *)
(* when the navigation pass produced a candidate the returned URL is that  *)
(* of a navigation anchor.                                                 *)
(***************************************************************************)
C19_NavigationPreferred ==
    (cl.pc = "done" /\ cl.fn \in Classifiers /\ cl.via # "error") =>
        /\ cl.unscoped <=> cl.nav_hits = 0
        /\ cl.nav_hits > 0 => (cl.via = "scan" /\ InNav(cl.page.anchors[cl.picked], cl.fn))

(***************************************************************************)
(* C20: the anchor whose URL a classifier returns is the first, in         *)
(* document order, of the qualifying anchors of the set it was taken from  *)
(* (the navigation anchors, or all anchors, of the football, the           *)
(* football-or-coaches coaches, or the roster category): no qualifying     *)
(* anchor of that set stands before it.                                    *)
(***************************************************************************)
\* the category anchor k of the page qualifies for, by the keyword tables
Qualifies(k) ==
    LET a == cl.page.anchors[k]
        kind == AnchorKinds[a][cl.fn]
    IN  IF kind = "coaches" /\ FootballOrCoachesUrl(UrlJoin(cl.url, a.href))
        THEN "football coaches" ELSE kind

\* anchor k is in the set the scan that produced the candidates walked
InScope(k) == cl.unscoped \/ InNav(cl.page.anchors[k], cl.fn)

C20_FirstInDocumentOrder ==
    (cl.pc = "done" /\ cl.fn \in Classifiers /\ cl.via = "scan") =>
        /\ cl.picked \in 1..Len(cl.page.anchors)
        /\ Qualifies(cl.picked) \in {"football", "football coaches", "roster"}
        /\ InScope(cl.picked)
        /\ \A j \in 1..(cl.picked - 1) : ~(Qualifies(j) = Qualifies(cl.picked) /\ InScope(j))

\* two qualifying anchors of the same set, and the earlier one is returned
C20_Witness ==
    /\ cl.pc = "done"
    /\ cl.fn \in Classifiers
    /\ cl.via = "scan"
    /\ \E j \in 1..Len(cl.page.anchors) :
         /\ j > cl.picked
         /\ Qualifies(j) = Qualifies(cl.picked)
         /\ InScope(j)
         /\ cl.page.anchors[j] # cl.page.anchors[cl.picked]

(***************************************************************************)
(* C21: in a pattern probe a request that raises counts as a non-match of  *)
(* that candidate only: the suffixes after it are still requested in       *)
(* order, and a later candidate that qualifies is still returned.          *)
(***************************************************************************)
C21_ErrorSkipsOneCandidate ==
    pr.lastError # 0 =>
        /\ pr.pc = "request" =>
              (pr.i = pr.asked + 1 /\ pr.i <= Len(ProbePatterns(pr.cat)) /\ pr.firstQ = 0)
        /\ pr.pc = "done" =>
              IF pr.firstQ # 0
              THEN /\ pr.result = UrlJoin(pr.base, ProbePatterns(pr.cat)[pr.firstQ])
                   /\ pr.lastError < pr.firstQ
              ELSE /\ pr.result = None
                   /\ pr.asked = Len(ProbePatterns(pr.cat))

\* the second request raised and the fourth candidate was returned
C21_Witness ==
    /\ pr.pc = "done"
    /\ pr.lastError = 2
    /\ pr.firstQ = 4
    /\ pr.result # None

(***************************************************************************)
(* C22: scrape_coach_bios issues no fetch for a coach without profile URL  *)
(* and passes the coach's record on unchanged: the profile fetches made    *)
(* are as many as the coaches with a profile URL that were handled, and    *)
(* the output holds the input record of each coach without one.            *)
(***************************************************************************)
ProfileFetches == Len(SelectSeq(pl.fetches, LAMBDA f : f.stage = "profile"))

WithProfileUrl(n) ==
    Len(SelectSeq(SubSeq(pl.coaches, 1, n),
                  LAMBDA c : c.profile_url # None /\ c.profile_url # ""))

C22_NoFetchWithoutProfileUrl ==
    /\ pl.pc = "bios" => ProfileFetches = WithProfileUrl(pl.i - 1)
    /\ (pl.pc = "done" /\ pl.raised = "AttributeError") => ProfileFetches = WithProfileUrl(pl.i)
    /\ (pl.pc = "done" /\ pl.fn # "process_school" /\ pl.raised = None /\ pl.result.success) =>
          ProfileFetches = WithProfileUrl(Len(pl.coaches))
    /\ pl.pc \in {"bios", "done"} =>
          \A k \in 1..Len(pl.coaches_with_bios) :
              pl.coaches[k].profile_url \in {None, ""} => pl.coaches_with_bios[k] = pl.coaches[k]

\* two coaches without profile URL went through, and no profile was fetched
C22_Witness ==
    /\ pl.pc = "done"
    /\ pl.fn = "scrape_school"
    /\ pl.raised = None
    /\ pl.result.success
    /\ Len(pl.result.coaches) = 2
    /\ \A k \in 1..2 : pl.coaches[k].profile_url \in {None, ""}
    /\ pl.result.coaches = pl.coaches
    /\ ProfileFetches = 0

(***************************************************************************)
(* C30: when every coach either has no profile URL or has a profile fetch  *)
(* that fails, scrape_coach_bios returns one record per input coach, in    *)
(* the input order, each one the input record unchanged.                   *)
(***************************************************************************)
NoProfileArrived == \A k \in 1..Len(pl.fetches) : pl.fetches[k].stage = "profile" => ~pl.fetches[k].ok

MarkedRows ==
    IF ex.page.tables # <<>> /\ "sidearm-table" \in ex.page.tables[1].classes
    THEN SelectSeq(ex.page.tables[1].rows, LAMBDA r : "sidearm-coaches-coach" \in r.classes)
    ELSE <<>>

C23_EmptyPhoneIsNull ==
    ( /\ ex.pc = "done"
      /\ Len(MarkedRows) = 1
      /\ Len(MarkedRows[1].cells) = 5
      /\ MarkedRows[1].cells[2] = <<Anchor("/staff/jane-doe", "Jane Doe")>>
      /\ MarkedRows[1].cells[4] = <<Anchor("mailto:jd@x.edu", "Email")>>
      /\ MarkedRows[1].cells[5] = <<>> )
    => /\ Len(ex.result) = 1
       /\ ex.result[1].name = "Jane Doe"
       /\ ex.result[1].email = "jd@x.edu"
       /\ ex.result[1].phone = None

(***************************************************************************)
(* C28: in the structured-table strategy every row with the row-class      *)
(* marker whose name cell has non-empty text gives a record, also when the *)
(* name anchor has no href or other cells are missing.                     *)
(***************************************************************************)
C28_EveryNamedRowYieldsRecord ==
    ex.pc = "done" =>
        \A k \in 1..Len(MarkedRows) :
            ( /\ Len(MarkedRows[k].cells) > 1
              /\ GetTextStrip(MarkedRows[k].cells[2]) # "" )
            => \E i \in 1..Len(ex.result) :
                  ex.result[i].name = GetTextStrip(MarkedRows[k].cells[2])

(***************************************************************************)
(* C24: in scrape_school the stages run in the order program page,         *)
(* classification, coaches page, extraction, bio fetches: the fetches of   *)
(* a run are the athletics page, the football page, the coaches page and   *)
(* then profile pages; after a failed fetch, a link not found or an empty  *)
(* extraction no later stage fetches; a profile fetch is made only after   *)
(* the extraction gave at least one record.                                *)
(***************************************************************************)
StageRank(stage) ==
    CASE stage = "athletics" -> 1
      [] stage = "football" -> 2
      [] stage = "coaches" -> 3
      [] stage = "profile" -> 4

C24_StagesInOrder ==
    pl.fn = "scrape_school" =>
        /\ \A j, k \in 1..Len(pl.fetches) :
             j < k =>
                /\ StageRank(pl.fetches[j].stage) <= StageRank(pl.fetches[k].stage)
                /\ StageRank(pl.fetches[j].stage) = StageRank(pl.fetches[k].stage)
                      => pl.fetches[j].stage = "profile"
                /\ pl.fetches[j].stage # "profile" => pl.fetches[j].ok
        /\ \A k \in 1..Len(pl.fetches) :
             /\ pl.fetches[k].stage = "athletics" => k = 1
             /\ pl.fetches[k].stage = "football" => k = 2 /\ Truthy(pl.football_url)
             /\ pl.fetches[k].stage = "coaches" => k = 3 /\ Truthy(pl.coaches_url)
             /\ pl.fetches[k].stage = "profile" => k > 3 /\ pl.coaches # <<>>
        /\ (pl.pc = "done" /\ pl.result = FailureResult(pl.school_data)) => ProfileFetches = 0
        /\ pl.pc \in {"find_football", "wait_football", "find_coaches", "wait_coaches",
                      "fetch_coaches", "extract"} => ProfileFetches = 0

C24_Witness ==
    /\ pl.fn = "scrape_school"
    /\ pl.pc = "done"
    /\ Len(pl.fetches) = 5
    /\ pl.fetches[3].stage = "coaches"
    /\ pl.fetches[4].stage = "profile"
    /\ ~pl.fetches[4].ok
    /\ pl.fetches[5].stage = "profile"

(***************************************************************************)
(* C25: the AI-fallback parser is invoked only after the heuristic of the  *)
(* same stage gave nothing, and for the coach extraction it is invoked     *)
(* when extract_coach_listings_bs4 returns an empty list.                  *)
(***************************************************************************)
C25_AiInvokedOnEmptyExtraction ==
    ( /\ pl.fn = "scrape_school"
      /\ pl.pc = "done"
      /\ Len(pl.fetches) = 3
      /\ pl.fetches[3].stage = "coaches"
      /\ pl.fetches[3].ok
      /\ extract_coach_listings_bs4(pl.html, pl.coaches_url) = <<>> )
    => pl.ai_calls > 0

(***************************************************************************)
(* C26: find_football_link terminates on every site: the number of         *)
(* 'skip=true' links it follows is bounded, also when the page reached     *)
(* through a skip link holds a skip link itself, and every call returns.   *)
(***************************************************************************)
\* the steps a call at position pc still has before it returns
PcRank(pc) ==
    CASE pc = "fetch" -> 5
      [] pc = "skip" -> 4
      [] pc = "nav" -> 3
      [] pc = "all" -> 2
      [] pc = "choose" -> 1
      [] OTHER -> 0

\* a bound on the steps left to a call: it falls with every step, so the
\* call returns after at most 6 * (RecursionLimit + 1) steps
StepsLeft(c) == (RecursionLimit - c.depth) * 6 + PcRank(c.pc)

LinesEqual(line) == {k \in 1..Len(dag.csv.lines) : dag.csv.lines[k] = line}

C27_HeaderExactlyOnce ==
    ( /\ \A i \in 1..MaxTasks : Task(i).pc \in {"done", "failed"}
      /\ dag.writers # {}
      /\ LinesEqual("100") = {} )
    => /\ dag.csv.lines[1] = "header"
       /\ Cardinality(LinesEqual("header")) = 1
       /\ \A i \in dag.writers :
             Cardinality(LinesEqual(Task(i).school_data.ncaa_institution_id)) = 1
       /\ Len(dag.csv.lines) = 1 + Cardinality(dag.writers)

(***************************************************************************)
(* C29: in find_coaches_or_roster_link every anchor that passes the        *)
(* negative-keyword and date-path filters and has 'roster' or 'players'    *)
(* in its text or href becomes a coaches or a roster candidate, also when  *)
(* it matches a coaches keyword such as 'directory' without 'coach' or     *)
(* 'staff'.                                                                *)
(***************************************************************************)
\* anchor k of the page names a roster: 'roster' or 'players' in text or href
NamesRoster(k) ==
    LET a == cl.page.anchors[k]
    IN  /\ Truthy(a.href)
        /\ \E word \in {"roster", "players"} :
              Contains(Lower(a.text), word) \/ Contains(Lower(a.href), word)

\* the positions of the anchors in the candidate lists
CandidateAnchors ==
    {cl.coaches[j].anchor : j \in 1..Len(cl.coaches)}
        \cup {cl.roster[j].anchor : j \in 1..Len(cl.roster)}

C29_RosterAnchorIsCandidate ==
    (cl.fn = "find_coaches_or_roster_link" /\ cl.pc = "choose") =>
        \A k \in 1..Len(cl.page.anchors) :
            ( /\ InScope(k)
              /\ NamesRoster(k)
              /\ cl.page.anchors[k] \notin NegativeAnchors[cl.fn]
              /\ cl.page.anchors[k] \notin DateAnchors )
            => k \in CandidateAnchors

====
